---- MODULE Spec2Model ----
(***************************************************************************)
(* Model of the cryptographic layer of gochat (package wx, crypto.go):     *)
(* the padding functions, the AES-CBC and AES-ECB engines, the RSA key     *)
(* loaders with Sign/Verify, and the callback-message protocol built on    *)
(* the CBC engine.                                                         *)
(*                                                                         *)
(* Byte slices are sequences over 0..255.  A call's outcome is a record    *)
(* whose status is "ok", "error" (a returned Go error) or "panic" (the     *)
(* goroutine aborts).                                                      *)
(***************************************************************************)
EXTENDS Integers, Sequences, FiniteSets, TLC

VARIABLES
  eng,     \* the AES engine under use: kind, key, iv, mode
  call,    \* the call in progress on it (or on a padding function)
  ret,     \* what that call returned
  rt,      \* set when the call decrypts what Encrypt returned: the plaintext
  priv,    \* the loaded *PrivateKey
  pub,     \* the loaded *PublicKey
  signed,  \* the last signature Sign returned, with its hash and data
  kcall,   \* the call in progress on a key loader or key
  kret,    \* what that call returned
  pstage,  \* the stage the callback-message flow is in
  pout,    \* the outbound (Encrypt-and-sign) call: inputs, buffers, response
  pin,     \* the inbound (Decrypt-and-verify) call: envelope, buffers, result
  ptrail,  \* the stages the inbound call went through, in order
  heap,    \* the backing array the callers' slices point into
  gor,     \* the goroutines calling one engine at the same time
  bm,      \* the CryptBlocks call in progress on an ECB block mode
  api      \* the API client: the action under execution and the transport log

cvars == <<eng, call, ret, rt>>
kvars == <<priv, pub, signed, kcall, kret>>
pvars == <<pstage, pout, pin, ptrail>>
mvars == <<heap, gor>>
xvars == <<heap, gor, bm, api>>
vars == <<eng, call, ret, rt, priv, pub, signed, kcall, kret, pstage, pout, pin, ptrail,
          heap, gor, bm, api>>

----------------------------------------------------------------------------
(* Bounds of the model.                                                    *)

\* longest plaintext / buffer handed to the engines and padding functions
MaxLen == 33

\* longest payload of a callback message
MaxPayload == 17

\* length of the backing array the concurrent callers share
HeapLen == 32

----------------------------------------------------------------------------
(* Program constants.                                                      *)

\* block.BlockSize() of the cipher returned by aes.NewCipher
BlockSize == 16

ZERO == "ZERO"
PKCS5 == "PKCS#5"
PKCS7 == "PKCS#7"

PaddingModes == {ZERO, PKCS5, PKCS7}

----------------------------------------------------------------------------
(* Byte helpers.                                                           *)

Bytes == 0..255

\* bytes.Repeat([]byte{b}, n)
Repeat(b, n) == [i \in 1..n |-> b]

\* s[lo:hi] of Go, 0-based, hi exclusive
Slice(s, lo, hi) == SubSeq(s, lo + 1, hi)

RECURSIVE XorByte(_, _)
XorByte(a, b) ==
  IF a = 0 THEN b
  ELSE IF b = 0 THEN a
  ELSE ((a + b) % 2) + 2 * XorByte(a \div 2, b \div 2)

XorBlock(x, y) == [i \in 1..Len(x) |-> XorByte(x[i], y[i])]

----------------------------------------------------------------------------
(* Padding functions.                                                      *)

\* a plausible slip: the textbook "pad only when needed" remainder
ZeroPadding_NoFullBlock(cipherText, blockSize) ==
  LET padding == (blockSize - (Len(cipherText) % blockSize)) % blockSize
  IN  cipherText \o Repeat(0, padding)

\* ZeroPadding: always appends blockSize - len%blockSize zero bytes.
ZeroPadding(cipherText, blockSize) ==
  LET padding == blockSize - (Len(cipherText) % blockSize)
  IN  cipherText \o Repeat(0, padding)

\* a plausible slip: one trailing zero byte is cut, not all of them
ZeroUnPadding_OneByte(plainText) ==
  IF Len(plainText) > 0 /\ plainText[Len(plainText)] = 0
  THEN Slice(plainText, 0, Len(plainText) - 1)
  ELSE plainText

\* ZeroUnPadding: bytes.TrimRightFunc strips every trailing rune 0; a byte 0
\* is always a rune of its own, any other trailing byte stops the trim.
RECURSIVE ZeroUnPadding(_)
ZeroUnPadding(plainText) ==
  IF Len(plainText) > 0 /\ plainText[Len(plainText)] = 0
  THEN ZeroUnPadding(Slice(plainText, 0, Len(plainText) - 1))
  ELSE plainText

\* a plausible slip: the pad bytes count from zero, byte(padding - 1)
PKCS5Padding_ValueOffByOne(cipherText, blockSize) ==
  LET p0 == blockSize - (Len(cipherText) % blockSize)
      padding == IF p0 = 0 THEN blockSize ELSE p0
  IN  cipherText \o Repeat((padding - 1) % 256, padding)

\* a plausible slip: the textbook "pad only when needed" remainder
PKCS5Padding_NoFullBlock(cipherText, blockSize) ==
  LET padding == (blockSize - (Len(cipherText) % blockSize)) % blockSize
  IN  cipherText \o Repeat(padding % 256, padding)

\* PKCS5Padding: padding bytes of value byte(padding)
PKCS5Padding(cipherText, blockSize) ==
  LET p0 == blockSize - (Len(cipherText) % blockSize)
      padding == IF p0 = 0 THEN blockSize ELSE p0
  IN  cipherText \o Repeat(padding % 256, padding)

\* a plausible slip: the upper range check on the pad byte is left out
PKCS5Unpadding_NoUpperCheck(plainText, blockSize) ==
  LET length == Len(plainText) IN
  IF length = 0
  THEN [panicked |-> TRUE, out |-> <<>>]
  ELSE LET u0 == plainText[length]
           unpadding == IF u0 < 1 THEN 0 ELSE u0
       IN  IF unpadding > length
           THEN [panicked |-> TRUE, out |-> <<>>]
           ELSE [panicked |-> FALSE, out |-> Slice(plainText, 0, length - unpadding)]

\* PKCS5Unpadding: plainText[length-1] is out of range on an empty buffer and
\* plainText[:length-unpadding] is out of range when unpadding > length; both
\* abort the goroutine.
PKCS5Unpadding(plainText, blockSize) ==
  LET length == Len(plainText) IN
  IF length = 0
  THEN [panicked |-> TRUE, out |-> <<>>]
  ELSE LET u0 == plainText[length]
           unpadding == IF u0 < 1 \/ u0 > blockSize THEN 0 ELSE u0
       IN  IF unpadding > length
           THEN [panicked |-> TRUE, out |-> <<>>]
           ELSE [panicked |-> FALSE, out |-> Slice(plainText, 0, length - unpadding)]

----------------------------------------------------------------------------
(* The AES block cipher of crypto/aes, as the engines use it: a keyed       *)
(* permutation of 16-byte blocks.  The model's permutation rotates the      *)
(* block by a key-dependent amount and adds the key bytes; Decrypt is its   *)
(* inverse, as aes's Decrypt is of Encrypt.                                 *)

KeyByte(key, i) == IF Len(key) = 0 THEN 0 ELSE key[((i - 1) % Len(key)) + 1]

KeyRot(key) == KeyByte(key, 1) % BlockSize

\* block.Encrypt(dst, src) on one block
AESEncryptBlock(key, b) ==
  [i \in 1..BlockSize |->
     (b[((i - 1 + KeyRot(key)) % BlockSize) + 1] + KeyByte(key, i)) % 256]

\* block.Decrypt(dst, src) on one block
AESDecryptBlock(key, c) ==
  [j \in 1..BlockSize |->
     LET i == ((j - 1 + BlockSize - KeyRot(key)) % BlockSize) + 1
     IN  (c[i] + 256 - KeyByte(key, i)) % 256]

\* a plausible slip: only "key is not empty" is checked
KeySizeOK_NonEmpty(key) == Len(key) > 0

\* aes.NewCipher(key) returns KeySizeError unless len(key) is 16, 24 or 32
KeySizeOK(key) == Len(key) \in {16, 24, 32}

----------------------------------------------------------------------------
(* Block modes.  CryptBlocks is called with dst = make([]byte, len(src)),  *)
(* so only the whole-blocks precondition can fail.                         *)

FullBlocks(src) == Len(src) % BlockSize = 0

\* cipher.NewCBCEncrypter(block, iv).CryptBlocks(dst, src)
RECURSIVE CBCEncryptBlocks(_, _, _)
CBCEncryptBlocks(key, prev, src) ==
  IF Len(src) = 0 THEN <<>>
  ELSE LET c == AESEncryptBlock(key, XorBlock(Slice(src, 0, BlockSize), prev))
       IN  c \o CBCEncryptBlocks(key, c, Slice(src, BlockSize, Len(src)))

\* cipher.NewCBCDecrypter(block, iv).CryptBlocks(dst, src)
RECURSIVE CBCDecryptBlocks(_, _, _)
CBCDecryptBlocks(key, prev, src) ==
  IF Len(src) = 0 THEN <<>>
  ELSE LET c == Slice(src, 0, BlockSize)
       IN  XorBlock(AESDecryptBlock(key, c), prev)
             \o CBCDecryptBlocks(key, c, Slice(src, BlockSize, Len(src)))

\* ecbEncrypter.CryptBlocks: the loop over whole blocks
RECURSIVE ecbEncrypter_CryptBlocks(_, _)
ecbEncrypter_CryptBlocks(key, src) ==
  IF Len(src) = 0 THEN <<>>
  ELSE AESEncryptBlock(key, Slice(src, 0, BlockSize))
         \o ecbEncrypter_CryptBlocks(key, Slice(src, BlockSize, Len(src)))

\* ecbDecrypter.CryptBlocks: the loop over whole blocks
RECURSIVE ecbDecrypter_CryptBlocks(_, _)
ecbDecrypter_CryptBlocks(key, src) ==
  IF Len(src) = 0 THEN <<>>
  ELSE AESDecryptBlock(key, Slice(src, 0, BlockSize))
         \o ecbDecrypter_CryptBlocks(key, Slice(src, BlockSize, Len(src)))

----------------------------------------------------------------------------
(* Outcomes of a call.  isNil tells a nil slice from an empty one; buf is  *)
(* the buffer handed to CryptBlocks (Encrypt) or produced by it (Decrypt); *)
(* work lists the stages the call went through.                            *)

Outcome(status, err, isNil, out, buf, work) ==
  [status |-> status, err |-> err, isNil |-> isNil, out |-> out,
   buf |-> buf, work |-> work]

NoOutcome == Outcome("none", "", TRUE, <<>>, <<>>, <<>>)

ErrKeySize == "crypto/aes: invalid key size"
ErrIVLength == "IV length must equal block size"
PanicFullBlocks == "crypto/cipher: input not full blocks"
PanicIVLength == "cipher.NewCBCEncrypter: IV length must equal block size"
PanicIndex == "runtime error: index or slice bounds out of range"

\* a plausible slip: PKCS#7 pads to the block size, not to the key length
PadForMode_BlockSize(mode, key, plainText) ==
  CASE mode = ZERO  -> ZeroPadding(plainText, BlockSize)
    [] mode = PKCS5 -> PKCS5Padding(plainText, BlockSize)
    [] mode = PKCS7 -> PKCS5Padding(plainText, BlockSize)
    [] OTHER        -> plainText

\* the switch on c.mode before CryptBlocks (no default case)
PadForMode(mode, key, plainText) ==
  CASE mode = ZERO  -> ZeroPadding(plainText, BlockSize)
    [] mode = PKCS5 -> PKCS5Padding(plainText, BlockSize)
    [] mode = PKCS7 -> PKCS5Padding(plainText, Len(key))
    [] OTHER        -> plainText

\* a plausible slip: PKCS#7 unpads with the block size, not the key length
\* a plausible slip: the switch has no case for ZERO
UnpadForMode_NoZeroCase(mode, key, plainText) ==
  CASE mode = PKCS5 -> PKCS5Unpadding(plainText, BlockSize)
    [] mode = PKCS7 -> PKCS5Unpadding(plainText, Len(key))
    [] OTHER        -> [panicked |-> FALSE, out |-> plainText]

UnpadForMode_BlockSize(mode, key, plainText) ==
  CASE mode = ZERO  -> [panicked |-> FALSE, out |-> ZeroUnPadding(plainText)]
    [] mode = PKCS5 -> PKCS5Unpadding(plainText, BlockSize)
    [] mode = PKCS7 -> PKCS5Unpadding(plainText, BlockSize)
    [] OTHER        -> [panicked |-> FALSE, out |-> plainText]

\* the switch on c.mode after CryptBlocks (no default case)
UnpadForMode(mode, key, plainText) ==
  CASE mode = ZERO  -> [panicked |-> FALSE, out |-> ZeroUnPadding(plainText)]
    [] mode = PKCS5 -> PKCS5Unpadding(plainText, BlockSize)
    [] mode = PKCS7 -> PKCS5Unpadding(plainText, Len(key))
    [] OTHER        -> [panicked |-> FALSE, out |-> plainText]

\* a plausible slip: "<" written for "!="
IVLengthBad_Shorter(c) == Len(c.iv) < BlockSize

\* len(c.iv) != block.BlockSize()
IVLengthBad(c) == Len(c.iv) # BlockSize

\* (*cbccrypto).Encrypt
cbccrypto_Encrypt(c, plainText) ==
  IF ~KeySizeOK(c.key)
  THEN Outcome("error", ErrKeySize, TRUE, <<>>, <<>>, <<"NewCipher">>)
  ELSE IF IVLengthBad(c)
  THEN Outcome("error", ErrIVLength, TRUE, <<>>, <<>>, <<"NewCipher">>)
  ELSE LET padded == PadForMode(c.mode, c.key, plainText) IN
       IF Len(c.iv) # BlockSize
       THEN Outcome("panic", PanicIVLength, TRUE, <<>>, padded,
                    <<"NewCipher", "pad", "NewCBCEncrypter">>)
       ELSE IF ~FullBlocks(padded)
       THEN Outcome("panic", PanicFullBlocks, TRUE, <<>>, padded,
                    <<"NewCipher", "pad", "NewCBCEncrypter", "CryptBlocks">>)
       ELSE Outcome("ok", "", FALSE, CBCEncryptBlocks(c.key, c.iv, padded), padded,
                    <<"NewCipher", "pad", "NewCBCEncrypter", "CryptBlocks">>)

\* (*cbccrypto).Decrypt
cbccrypto_Decrypt(c, cipherText) ==
  IF ~KeySizeOK(c.key)
  THEN Outcome("error", ErrKeySize, TRUE, <<>>, <<>>, <<"NewCipher">>)
  ELSE IF IVLengthBad(c)
  THEN Outcome("error", ErrIVLength, TRUE, <<>>, <<>>, <<"NewCipher">>)
  ELSE IF Len(c.iv) # BlockSize
  THEN Outcome("panic", PanicIVLength, TRUE, <<>>, <<>>,
               <<"NewCipher", "NewCBCDecrypter">>)
  ELSE IF ~FullBlocks(cipherText)
  THEN Outcome("panic", PanicFullBlocks, TRUE, <<>>, <<>>,
               <<"NewCipher", "NewCBCDecrypter", "CryptBlocks">>)
  ELSE LET raw == CBCDecryptBlocks(c.key, c.iv, cipherText)
           un == UnpadForMode(c.mode, c.key, raw)
           work == <<"NewCipher", "NewCBCDecrypter", "CryptBlocks", "unpad">>
       IN  IF un.panicked
           THEN Outcome("panic", PanicIndex, TRUE, <<>>, raw, work)
           ELSE Outcome("ok", "", FALSE, un.out, raw, work)

\* (*ecbcrypto).Encrypt
ecbcrypto_Encrypt(c, plainText) ==
  IF ~KeySizeOK(c.key)
  THEN Outcome("error", ErrKeySize, TRUE, <<>>, <<>>, <<"NewCipher">>)
  ELSE LET padded == PadForMode(c.mode, c.key, plainText) IN
       IF ~FullBlocks(padded)
       THEN Outcome("panic", PanicFullBlocks, TRUE, <<>>, padded,
                    <<"NewCipher", "pad", "NewECBEncrypter", "CryptBlocks">>)
       ELSE Outcome("ok", "", FALSE, ecbEncrypter_CryptBlocks(c.key, padded), padded,
                    <<"NewCipher", "pad", "NewECBEncrypter", "CryptBlocks">>)

\* (*ecbcrypto).Decrypt
ecbcrypto_Decrypt(c, cipherText) ==
  IF ~KeySizeOK(c.key)
  THEN Outcome("error", ErrKeySize, TRUE, <<>>, <<>>, <<"NewCipher">>)
  ELSE IF ~FullBlocks(cipherText)
  THEN Outcome("panic", PanicFullBlocks, TRUE, <<>>, <<>>,
               <<"NewCipher", "NewECBDecrypter", "CryptBlocks">>)
  ELSE LET raw == ecbDecrypter_CryptBlocks(c.key, cipherText)
           un == UnpadForMode(c.mode, c.key, raw)
           work == <<"NewCipher", "NewECBDecrypter", "CryptBlocks", "unpad">>
       IN  IF un.panicked
           THEN Outcome("panic", PanicIndex, TRUE, <<>>, raw, work)
           ELSE Outcome("ok", "", FALSE, un.out, raw, work)

\* NewCBCCrypto(key, iv, mode)
NewCBCCrypto(key, iv, mode) == [kind |-> "CBC", key |-> key, iv |-> iv, mode |-> mode]

\* NewECBCrypto(key, mode): the engine holds no IV
NewECBCrypto(key, mode) == [kind |-> "ECB", key |-> key, iv |-> <<>>, mode |-> mode]

\* AESCrypto.Encrypt / AESCrypto.Decrypt: dispatch on the engine behind the
\* interface
Encrypt(c, plainText) ==
  IF c.kind = "CBC" THEN cbccrypto_Encrypt(c, plainText) ELSE ecbcrypto_Encrypt(c, plainText)

Decrypt(c, cipherText) ==
  IF c.kind = "CBC" THEN cbccrypto_Decrypt(c, cipherText) ELSE ecbcrypto_Decrypt(c, cipherText)

----------------------------------------------------------------------------
(* RSA keys.  crypto/rsa is modelled at textbook scale: a key pair is       *)
(* (n, e, d) with a small modulus, k is the modulus length in bytes, the    *)
(* PKCS #1 v1.5 encoding of a digest is a number below n, a signature is    *)
(* em^d mod n and verification recomputes sig^e mod n.                      *)

RECURSIVE ModExp(_, _, _)
ModExp(b, x, n) ==
  IF x = 0 THEN 1 % n
  ELSE LET h == ModExp(b, x \div 2, n)
           sq == (h * h) % n
       IN  IF x % 2 = 1 THEN (sq * (b % n)) % n ELSE sq

RECURSIVE Pow2(_)
Pow2(i) == IF i = 0 THEN 1 ELSE 2 * Pow2(i - 1)

\* x with bit i flipped
FlipBit(x, i) == IF (x \div Pow2(i)) % 2 = 1 THEN x - Pow2(i) ELSE x + Pow2(i)

\* pair 1: n = 61 * 53, two bytes long; pair 2: n = 11 * 13, one byte long
KeyPair(id) ==
  IF id = 1 THEN [n |-> 3233, e |-> 17, d |-> 2753, k |-> 2]
            ELSE [n |-> 143, e |-> 7, d |-> 103, k |-> 1]

KeyPairIds == {1, 2}

\* crypto.Hash identifiers; MD4 and RIPEMD160 are not linked into the binary
Hashes == {"MD4", "SHA1", "SHA256", "RIPEMD160"}

LinkedHashes == {"SHA1", "SHA256"}

\* a plausible slip: the availability check is left out
HashAvailable_Always(hash) == TRUE

\* hash.Available()
HashAvailable(hash) == hash \in LinkedHashes

\* number of digest values of a hash, and the start value of its state
DigestSpace(hash) == IF hash = "SHA256" THEN 64 ELSE 16

DigestSeed(hash) == IF hash = "SHA256" THEN 2 ELSE 1

\* h := hash.New(); h.Write(data); h.Sum(nil): a digest free of collisions
\* on the model's data
RECURSIVE HashFrom(_, _, _)
HashFrom(hash, state, data) ==
  IF Len(data) = 0 THEN state
  ELSE HashFrom(hash, (5 * state + data[1] + 1) % DigestSpace(hash),
                SubSeq(data, 2, Len(data)))

HashSum(hash, data) == HashFrom(hash, DigestSeed(hash), data)

\* length in bytes of the encoded message (DigestInfo prefix, digest and the
\* minimal padding): tLen + 11 of crypto/rsa
EMLen(hash) == IF hash = "SHA256" THEN 2 ELSE 1

\* the encoded message itself, as a number
EncodedMessage(hash, digest) == (IF hash = "SHA256" THEN 256 ELSE 64) + digest

\* outcomes of the calls on keys; sigNil tells a nil signature from a value
NoKey == [loaded |-> FALSE, pair |-> 0]

KeyOutcome(status, err, sigNil, sig, work) ==
  [status |-> status, err |-> err, sigNil |-> sigNil, sig |-> sig, work |-> work,
   key |-> NoKey]

NoKeyOutcome == KeyOutcome("none", "", TRUE, 0, <<>>)

ErrHashUnavailable == "crypto: requested hash function is unavailable"
ErrMessageTooLong == "crypto/rsa: message too long for RSA public key size"
ErrVerification == "crypto/rsa: verification error"
PanicHashNew == "crypto: requested hash function is unavailable (panic)"

\* rsa.SignPKCS1v15(rand.Reader, key, hash, hashed)
SignPKCS1v15(key, hash, hashed) ==
  IF key.k < EMLen(hash)
  THEN [err |-> ErrMessageTooLong, sig |-> 0]
  ELSE [err |-> "", sig |-> ModExp(EncodedMessage(hash, hashed), key.d, key.n)]

\* rsa.VerifyPKCS1v15(key, hash, hashed, sig); sigLen is len(sig)
VerifyPKCS1v15(key, hash, hashed, sigLen, sig) ==
  IF key.k < EMLen(hash) \/ sigLen # key.k \/ sig >= key.n
  THEN ErrVerification
  ELSE IF ModExp(sig, key.e, key.n) = EncodedMessage(hash, hashed)
  THEN ""
  ELSE ErrVerification

\* (*PrivateKey).Sign
PrivateKey_Sign(pk, hash, data) ==
  IF ~HashAvailable(hash)
  THEN KeyOutcome("error", ErrHashUnavailable, TRUE, 0, <<>>)
  ELSE IF hash \notin LinkedHashes
  THEN KeyOutcome("panic", PanicHashNew, TRUE, 0, <<"hash.New">>)
  ELSE LET r == SignPKCS1v15(KeyPair(pk.pair), hash, HashSum(hash, data))
           work == <<"hash.New", "h.Write", "SignPKCS1v15">>
       IN  IF r.err # ""
           THEN KeyOutcome("error", r.err, TRUE, 0, work)
           ELSE KeyOutcome("ok", "", FALSE, r.sig, work)

\* a plausible slip: h.Write(data) is left out, the empty input is hashed
PublicKey_Verify_NoWrite(pk, hash, data, sigLen, signature) ==
  IF ~HashAvailable(hash)
  THEN KeyOutcome("error", ErrHashUnavailable, TRUE, 0, <<>>)
  ELSE IF hash \notin LinkedHashes
  THEN KeyOutcome("panic", PanicHashNew, TRUE, 0, <<"hash.New">>)
  ELSE LET err == VerifyPKCS1v15(KeyPair(pk.pair), hash, HashSum(hash, <<>>),
                                 sigLen, signature)
           work == <<"hash.New", "VerifyPKCS1v15">>
       IN  IF err # ""
           THEN KeyOutcome("error", err, TRUE, 0, work)
           ELSE KeyOutcome("ok", "", TRUE, 0, work)

\* (*PublicKey).Verify
PublicKey_Verify(pk, hash, data, sigLen, signature) ==
  IF ~HashAvailable(hash)
  THEN KeyOutcome("error", ErrHashUnavailable, TRUE, 0, <<>>)
  ELSE IF hash \notin LinkedHashes
  THEN KeyOutcome("panic", PanicHashNew, TRUE, 0, <<"hash.New">>)
  ELSE LET err == VerifyPKCS1v15(KeyPair(pk.pair), hash, HashSum(hash, data),
                                 sigLen, signature)
           work == <<"hash.New", "h.Write", "VerifyPKCS1v15">>
       IN  IF err # ""
           THEN KeyOutcome("error", err, TRUE, 0, work)
           ELSE KeyOutcome("ok", "", TRUE, 0, work)

----------------------------------------------------------------------------
(* Key loaders.  A PEM input is described by what pem.Decode and the x509  *)
(* parsers make of it: whether a block is found, its header tag, and what  *)
(* the DER bytes hold.                                                     *)

RSAPKCS1 == "RSA PRIVATE KEY"
RSAPKCS8 == "PRIVATE KEY"

PemTypes == {RSAPKCS1, RSAPKCS8, "EC PRIVATE KEY", "PUBLIC KEY", "CERTIFICATE"}

\* what block.Bytes hold: a format, the key algorithm in it, the key pair
DerBodies ==
  {[format |-> f, alg |-> "rsa", pair |-> id] :
      f \in {"pkcs1", "pkcs8", "pkix", "cert"}, id \in KeyPairIds}
    \cup {[format |-> f, alg |-> "ecdsa", pair |-> 0] : f \in {"pkcs8", "pkix", "cert"}}
    \cup {[format |-> "garbage", alg |-> "", pair |-> 0]}

NoBody == [format |-> "garbage", alg |-> "", pair |-> 0]

PemInputs ==
  {[found |-> FALSE, type |-> "", body |-> NoBody]}
    \cup {[found |-> TRUE, type |-> t, body |-> b] : t \in PemTypes, b \in DerBodies}

\* a parser's result: an error, or a key of some algorithm
Parsed(fmt, body) ==
  IF body.format = fmt
  THEN [err |-> "", alg |-> body.alg, pair |-> body.pair]
  ELSE [err |-> "x509: failed to parse", alg |-> "", pair |-> 0]

\* x509.ParsePKCS1PrivateKey: an RSA key or an error
ParsePKCS1PrivateKey(body) == Parsed("pkcs1", body)

\* x509.ParsePKCS8PrivateKey: a key of any supported algorithm or an error
ParsePKCS8PrivateKey(body) == Parsed("pkcs8", body)

\* x509.ParsePKIXPublicKey: a key of any supported algorithm or an error
ParsePKIXPublicKey(body) == Parsed("pkix", body)

\* x509.ParseCertificate: cert.PublicKey is a key of any supported algorithm
ParseCertificate(body) == Parsed("cert", body)

\* outcome of a loader: the key object it returned, if any
LoadOutcome(status, err, key) ==
  [status |-> status, err |-> err, sigNil |-> TRUE, sig |-> 0, work |-> <<>>,
   key |-> key]

ErrNoPEM == "no PEM data is found"
PanicTypeAssertion == "interface conversion: not an RSA key"

\* pk.(*rsa.PrivateKey) and its like: the assertion has no comma-ok form, so
\* a nil interface or a key of another algorithm aborts
AssertRSA(parsed) ==
  IF parsed.alg = "rsa"
  THEN LoadOutcome("ok", "", [loaded |-> TRUE, pair |-> parsed.pair])
  ELSE LoadOutcome("panic", PanicTypeAssertion, NoKey)

\* NewPrivateKeyFromPemBlock
NewPrivateKeyFromPemBlock(pemBlock) ==
  IF ~pemBlock.found
  THEN LoadOutcome("error", ErrNoPEM, NoKey)
  ELSE LET parsed ==
             CASE pemBlock.type = RSAPKCS1 -> ParsePKCS1PrivateKey(pemBlock.body)
               [] pemBlock.type = RSAPKCS8 -> ParsePKCS8PrivateKey(pemBlock.body)
               [] OTHER -> [err |-> "", alg |-> "nil", pair |-> 0]
       IN  IF parsed.err # ""
           THEN LoadOutcome("error", parsed.err, NoKey)
           ELSE AssertRSA(parsed)

\* NewPublicKeyFromPemBlock
NewPublicKeyFromPemBlock(pemBlock) ==
  IF ~pemBlock.found
  THEN LoadOutcome("error", ErrNoPEM, NoKey)
  ELSE LET parsed == ParsePKIXPublicKey(pemBlock.body)
       IN  IF parsed.err # ""
           THEN LoadOutcome("error", parsed.err, NoKey)
           ELSE AssertRSA(parsed)

\* NewPublicKeyFromDerBlock
NewPublicKeyFromDerBlock(pemBlock) ==
  IF ~pemBlock.found
  THEN LoadOutcome("error", ErrNoPEM, NoKey)
  ELSE LET parsed == ParseCertificate(pemBlock.body)
       IN  IF parsed.err # ""
           THEN LoadOutcome("error", parsed.err, NoKey)
           ELSE AssertRSA(parsed)

\* data handed to Sign and Verify
SignDatas == {<<>>, <<1>>, <<2>>, <<1, 2>>, <<2, 1>>}

NoSignature == [valid |-> FALSE, hash |-> "", data |-> <<>>, sig |-> 0, pair |-> 0]

NoPem == [found |-> FALSE, type |-> "", body |-> NoBody]

NoKeyCall == [op |-> "none", pem |-> NoPem, hash |-> "", data |-> <<>>, flip |-> -1]

----------------------------------------------------------------------------
(* Callback message protocol (spec section 4.4).  Text is a sequence of    *)
(* ASCII codes.  The digest is scaled down from 160 to 20 bits; everything *)
(* else is computed as the protocol prescribes: the lexicographic sort,    *)
(* the concatenation, the hex and base64 encodings, the framing, and the   *)
(* CBC engine with PKCS#7 padding.                                         *)

\* "womeibanfale"
Token == <<119, 111, 109, 101, 105, 98, 97, 110, 102, 97, 108, 101>>

\* "zhinengxiugainimenle00000000000000000000001"
EncodingAESKey ==
  <<122, 104, 105, 110, 101, 110, 103, 120, 105, 117, 103, 97, 105, 110, 105,
    109, 101, 110, 108, 101, 48, 48, 48, 48, 48, 48, 48, 48, 48, 48, 48, 48,
    48, 48, 48, 48, 48, 48, 48, 48, 48, 48, 49>>

\* "wxc83d3daa98fe100c"
AppID ==
  <<119, 120, 99, 56, 51, 100, 51, 100, 97, 97, 57, 56, 102, 101, 49, 48, 48, 99>>

\* "wx0000000000000000": the identifier of another account
OtherAppID ==
  <<119, 120, 48, 48, 48, 48, 48, 48, 48, 48, 48, 48, 48, 48, 48, 48, 48, 48>>

\* the base64 alphabet: A-Z, a-z, 0-9, +, /
B64Char(v) ==
  IF v < 26 THEN 65 + v
  ELSE IF v < 52 THEN 97 + (v - 26)
  ELSE IF v < 62 THEN 48 + (v - 52)
  ELSE IF v = 62 THEN 43 ELSE 47

\* the value of a base64 character, -1 for any other character
B64Val(c) ==
  IF c \in 65..90 THEN c - 65
  ELSE IF c \in 97..122 THEN c - 97 + 26
  ELSE IF c \in 48..57 THEN c - 48 + 52
  ELSE IF c = 43 THEN 62
  ELSE IF c = 47 THEN 63 ELSE -1

\* the padding character "="
B64Pad == 61

\* base64 standard encoding with padding
RECURSIVE Base64Encode(_)
Base64Encode(b) ==
  IF Len(b) = 0 THEN <<>>
  ELSE IF Len(b) = 1
  THEN <<B64Char(b[1] \div 4), B64Char((b[1] % 4) * 16), B64Pad, B64Pad>>
  ELSE IF Len(b) = 2
  THEN <<B64Char(b[1] \div 4), B64Char((b[1] % 4) * 16 + b[2] \div 16),
         B64Char((b[2] % 16) * 4), B64Pad>>
  ELSE <<B64Char(b[1] \div 4), B64Char((b[1] % 4) * 16 + b[2] \div 16),
         B64Char((b[2] % 16) * 4 + b[3] \div 64), B64Char(b[3] % 64)>>
         \o Base64Encode(SubSeq(b, 4, Len(b)))

\* base64 standard decoding: ok is FALSE on a length that is no multiple of
\* four, a character outside the alphabet or misplaced padding
RECURSIVE Base64Decode(_)
Base64Decode(s) ==
  IF Len(s) = 0 THEN [ok |-> TRUE, bytes |-> <<>>]
  ELSE IF Len(s) < 4 THEN [ok |-> FALSE, bytes |-> <<>>]
  ELSE LET a == B64Val(s[1])
           b == B64Val(s[2])
           c == B64Val(s[3])
           d == B64Val(s[4])
           last == Len(s) = 4
       IN  IF a < 0 \/ b < 0 THEN [ok |-> FALSE, bytes |-> <<>>]
           ELSE IF last /\ s[3] = B64Pad /\ s[4] = B64Pad
           THEN [ok |-> TRUE, bytes |-> <<a * 4 + b \div 16>>]
           ELSE IF c < 0 THEN [ok |-> FALSE, bytes |-> <<>>]
           ELSE IF last /\ s[4] = B64Pad
           THEN [ok |-> TRUE,
                 bytes |-> <<a * 4 + b \div 16, (b % 16) * 16 + c \div 4>>]
           ELSE IF d < 0 THEN [ok |-> FALSE, bytes |-> <<>>]
           ELSE LET rest == Base64Decode(SubSeq(s, 5, Len(s)))
                IN  [ok |-> rest.ok,
                     bytes |-> <<a * 4 + b \div 16, (b % 16) * 16 + c \div 4,
                                 (c % 4) * 64 + d>> \o rest.bytes]

\* the 32-byte AES key: the 43-character key string with one "=" appended,
\* base64-decoded
ProtoKey == Base64Decode(EncodingAESKey \o <<B64Pad>>).bytes

\* the CBC engine of the protocol: IV = first 16 bytes of the key, PKCS#7
ProtoEngine == NewCBCCrypto(ProtoKey, SubSeq(ProtoKey, 1, 16), PKCS7)

\* x sorts before y, byte by byte, a proper prefix first
LexLess(x, y) ==
  LET n    == IF Len(x) < Len(y) THEN Len(x) ELSE Len(y)
      diff == {i \in 1..n : x[i] # y[i]}
  IN  IF diff = {} THEN Len(x) < Len(y)
      ELSE LET d == CHOOSE i \in diff : \A j \in diff : i <= j
           IN  x[d] < y[d]

\* the texts of a sequence in lexicographic order, concatenated
RECURSIVE SortedConcat(_)
SortedConcat(items) ==
  IF Len(items) = 0 THEN <<>>
  ELSE LET m == CHOOSE i \in 1..Len(items) :
                  \A j \in 1..Len(items) : ~LexLess(items[j], items[i])
           rest == [k \in 1..(Len(items) - 1) |-> IF k < m THEN items[k] ELSE items[k + 1]]
       IN  items[m] \o SortedConcat(rest)

\* the digest of a text: the 160-bit hash of the protocol scaled to 20 bits
RECURSIVE DigestFrom(_, _, _, _)
DigestFrom(h, s, lo, hi) ==
  IF lo > hi THEN h
  ELSE IF lo = hi THEN (h * 31 + s[lo]) % 1048573
  ELSE LET mid  == (lo + hi) \div 2
           left == DigestFrom(h, s, lo, mid)
       IN  \* the characters lo..mid are absorbed before mid+1..hi
           IF left >= 0 THEN DigestFrom(left, s, mid + 1, hi) ELSE 0

Digest20(s) == DigestFrom(7, s, 1, Len(s))

HexDigit(v) == IF v < 10 THEN 48 + v ELSE 97 + (v - 10)

\* lowercase hex of a 20-bit digest
HexEncode(h) ==
  <<HexDigit(h \div 65536), HexDigit((h \div 4096) % 16), HexDigit((h \div 256) % 16),
    HexDigit((h \div 16) % 16), HexDigit(h % 16)>>

\* a slip: the nonce is left out of the signed tuple
Signature_NoNonce(token, timestamp, nonce, ciphertext) ==
  HexEncode(Digest20(SortedConcat(<<token, timestamp, ciphertext>>)))

\* step 1: hash of the sorted tuple (token, timestamp, nonce, ciphertext),
\* concatenated, hex-encoded
Signature(token, timestamp, nonce, ciphertext) ==
  HexEncode(Digest20(SortedConcat(<<token, timestamp, nonce, ciphertext>>)))

\* the 4-byte big-endian length prefix
Length4(n) == <<(n \div 16777216) % 256, (n \div 65536) % 256, (n \div 256) % 256, n % 256>>

FromLength4(b) == ((b[1] * 256 + b[2]) * 256 + b[3]) * 256 + b[4]

\* the frame: 16 random bytes, the length, the payload, the identity
BuildFrame(random, payload, identity) ==
  random \o Length4(Len(payload)) \o payload \o identity

\* step 3 of the inbound flow: parse the frame
ParseFrame(buf, configured) ==
  IF Len(buf) < 20
  THEN [err |-> "FrameCorrupt", payload |-> <<>>, identity |-> <<>>]
  ELSE LET n == FromLength4(SubSeq(buf, 17, 20)) IN
       IF n > Len(buf) - 20
       THEN [err |-> "FrameCorrupt", payload |-> <<>>, identity |-> <<>>]
       ELSE LET payload == SubSeq(buf, 21, 20 + n)
                identity == SubSeq(buf, 21 + n, Len(buf))
            IN  IF identity # configured
                THEN [err |-> "IdentityMismatch", payload |-> <<>>, identity |-> <<>>]
                ELSE [err |-> "", payload |-> payload, identity |-> identity]

\* timestamps and nonces of the envelopes: "12", "21"; "121", "n"
Timestamps == {<<49, 50>>, <<50, 49>>}

Nonces == {<<49, 50, 49>>, <<110>>}

\* an n-byte payload
MkPayload(n) == [i \in 1..n |-> (5 * i + 60) % 256]

Payloads == {MkPayload(n) : n \in 0..MaxPayload}

Identities == {AppID, OtherAppID}

\* the 16 random bytes that open a frame
Randoms == {[i \in 1..16 |-> (seed + 11 * i) % 256] : seed \in {5, 200}}

NoOutbound ==
  [payload |-> <<>>, identity |-> <<>>, random |-> <<>>, buf |-> <<>>,
   timestamp |-> <<>>, nonce |-> <<>>, signature |-> <<>>, ciphertext |-> <<>>]

NoInbound ==
  [timestamp |-> <<>>, nonce |-> <<>>, signature |-> <<>>, ciphertext |-> <<>>,
   altered |-> "none", buf |-> <<>>, payload |-> <<>>, identity |-> <<>>,
   err |-> "", decrypted |-> FALSE]

ProtoIdle ==
  /\ pstage = "Idle"
  /\ pout = NoOutbound
  /\ pin = NoInbound
  /\ ptrail = <<>>

----------------------------------------------------------------------------
(* Inputs of the cipher engines and padding functions.                     *)

\* an n-byte key or IV whose bytes follow from a seed
MkKey(n, seed) == [i \in 1..n |-> (seed + 7 * i) % 256]

\* 16, 24 and 32 are the AES key lengths; 15 is not one
KeyLens == {15, 16, 24, 32}

Keys == {MkKey(n, 3) : n \in KeyLens}

\* 16 is the block size; 15 and 17 are not
IVLens == {15, 16, 17}

IVs == {MkKey(n, 90) : n \in IVLens}

\* the last byte of a buffer decides what the unpadding functions do
TailBytes == {0, 1, 17, 65}

\* an n-byte buffer ending in byte t
MkData(n, t) == [i \in 1..n |-> IF i = n THEN t ELSE (3 * i + 1) % 256]

Datas == {MkData(n, t) : n \in 0..MaxLen, t \in TailBytes}

\* a buffer of n bytes with zero bytes inside and a non-zero last byte,
\* followed by z zero bytes
MkZeroData(n, last, z) ==
  [i \in 1..(n + z) |-> IF i > n THEN 0 ELSE IF i = n THEN last ELSE IF i % 2 = 0 THEN 0 ELSE 7]

\* buffers handed to ZeroUnPadding: empty, all zero, with one or several
\* trailing zero bytes, ending in a byte above 127
ZeroDatas == {MkZeroData(n, last, z) : n \in 0..4, last \in {9, 200}, z \in 0..4}

\* buffers handed to Decrypt directly: whole blocks, and lengths that are not
CipherLens == {0, 15, 16, 32}

\* one block that an ECB engine with key k decrypts to a buffer ending in the
\* pad byte 20: more than the 16 bytes there are, within a 24- or 32-byte unit
OverlongPadCipherTexts ==
  {AESEncryptBlock(k, MkData(BlockSize, 20)) : k \in {k \in Keys : KeySizeOK(k)}}

CipherTexts ==
  {MkData(n, t) : n \in CipherLens, t \in TailBytes} \cup OverlongPadCipherTexts

\* block sizes handed to the exported padding functions: 1 and 255 are the
\* ends of the range a pad byte can hold
PadSizes == {1, 8, 16, 24, 32, 255}

Engines ==
  {NewCBCCrypto(k, iv, m) : k \in Keys, iv \in IVs, m \in PaddingModes}
    \cup {NewECBCrypto(k, m) : k \in Keys, m \in PaddingModes}

\* no engine constructed: the caller uses the exported padding functions
NoEngine == [kind |-> "none", key |-> <<>>, iv |-> <<>>, mode |-> ""]

NoCall == [op |-> "none", arg |-> <<>>, blockSize |-> 0]

NoRoundTrip == [active |-> FALSE, plain |-> <<>>]

----------------------------------------------------------------------------
(* Rest values of the concurrent callers, of the block-mode call and of    *)
(* the API client.                                                         *)

\* a slice header: offset into the backing array, len and cap
NoSlice == [off |-> 0, len |-> 0, cap |-> 0]

\* the goroutines that share one engine
Goroutines == {1, 2}

\* a goroutine that has made no call
NoGoroutine ==
  [pc |-> "idle", op |-> "none", arg |-> NoSlice, engine |-> NoEngine,
   input |-> <<>>, shared |-> FALSE, padded |-> NoSlice, buf |-> <<>>,
   status |-> "none", err |-> "", out |-> <<>>]

\* no CryptBlocks call in progress
NoBlockCall ==
  [pc |-> "idle", op |-> "none", key |-> <<>>, src |-> <<>>, dst |-> <<>>,
   src0 |-> <<>>, dst0 |-> <<>>, at |-> 0, blocks |-> 0, panic |-> ""]

\* no action handed to Do
NoAction == [method |-> "", base |-> "", query |-> <<>>, body |-> "", hasDecode |-> FALSE]

\* a gomock controller with no recorded and no received call
NoController == [expected |-> <<>>, log |-> <<>>]

\* no action under execution
NoApiCall ==
  [pc |-> "idle", action |-> NoAction, token |-> "", derr |-> "", ctrl |-> NoController,
   resp |-> "", err |-> "", decoded |-> "", result |-> "", fatal |-> ""]

OthersIdle ==
  /\ heap = <<>>
  /\ gor = [g \in Goroutines |-> NoGoroutine]
  /\ bm = NoBlockCall
  /\ api = NoApiCall

----------------------------------------------------------------------------
(* The cipher engine as a state machine: an engine is constructed, a call  *)
(* is made on it and returns (or aborts), and the caller may feed an       *)
(* Encrypt result back into Decrypt of the same engine.                    *)

CipherIdle ==
  /\ call = NoCall
  /\ ret = NoOutcome
  /\ rt = NoRoundTrip

KeysIdle ==
  /\ priv = NoKey
  /\ pub = NoKey
  /\ signed = NoSignature
  /\ kcall = NoKeyCall
  /\ kret = NoKeyOutcome

Init ==
  /\ eng \in Engines \cup {NoEngine}
  /\ CipherIdle
  /\ KeysIdle
  /\ ProtoIdle
  /\ OthersIdle

Idle == call.op = "none"

\* c.Encrypt(plainText)
CallEncrypt(plainText) ==
  /\ Idle
  /\ eng.kind # "none"
  /\ call' = [op |-> "Encrypt", arg |-> plainText, blockSize |-> 0]
  /\ ret' = Encrypt(eng, plainText)
  /\ UNCHANGED <<eng, rt>>
  /\ UNCHANGED <<kvars, pvars, xvars>>

\* c.Decrypt(cipherText) on a buffer of the caller
CallDecrypt(cipherText) ==
  /\ Idle
  /\ eng.kind # "none"
  /\ call' = [op |-> "Decrypt", arg |-> cipherText, blockSize |-> 0]
  /\ ret' = Decrypt(eng, cipherText)
  /\ UNCHANGED <<eng, rt>>
  /\ UNCHANGED <<kvars, pvars, xvars>>

\* c.Decrypt(cipherText) on the ciphertext the previous Encrypt returned
CallDecryptResult ==
  /\ call.op = "Encrypt"
  /\ ret.status = "ok"
  /\ call' = [op |-> "Decrypt", arg |-> ret.out, blockSize |-> 0]
  /\ ret' = Decrypt(eng, ret.out)
  /\ rt' = [active |-> TRUE, plain |-> call.arg]
  /\ UNCHANGED eng
  /\ UNCHANGED <<kvars, pvars, xvars>>

\* PKCS5Padding(data, blockSize) called directly
CallPKCS5Padding(data, blockSize) ==
  /\ Idle
  /\ eng.kind = "none"
  /\ call' = [op |-> "PKCS5Padding", arg |-> data, blockSize |-> blockSize]
  /\ ret' = Outcome("ok", "", FALSE, PKCS5Padding(data, blockSize), <<>>, <<"pad">>)
  /\ UNCHANGED <<eng, rt>>
  /\ UNCHANGED <<kvars, pvars, xvars>>

\* PKCS5Unpadding(data, blockSize) called directly
CallPKCS5Unpadding(data, blockSize) ==
  /\ Idle
  /\ eng.kind = "none"
  /\ call' = [op |-> "PKCS5Unpadding", arg |-> data, blockSize |-> blockSize]
  /\ ret' = LET un == PKCS5Unpadding(data, blockSize) IN
            IF un.panicked
            THEN Outcome("panic", PanicIndex, TRUE, <<>>, <<>>, <<"unpad">>)
            ELSE Outcome("ok", "", FALSE, un.out, <<>>, <<"unpad">>)
  /\ UNCHANGED <<eng, rt>>
  /\ UNCHANGED <<kvars, pvars, xvars>>

\* ZeroPadding(data, blockSize) called directly
CallZeroPadding(data, blockSize) ==
  /\ Idle
  /\ eng.kind = "none"
  /\ call' = [op |-> "ZeroPadding", arg |-> data, blockSize |-> blockSize]
  /\ ret' = Outcome("ok", "", FALSE, ZeroPadding(data, blockSize), <<>>, <<"pad">>)
  /\ UNCHANGED <<eng, rt>>
  /\ UNCHANGED <<kvars, pvars, xvars>>

\* ZeroUnPadding(data) called directly
CallZeroUnPadding(data) ==
  /\ Idle
  /\ eng.kind = "none"
  /\ call' = [op |-> "ZeroUnPadding", arg |-> data, blockSize |-> 0]
  /\ ret' = Outcome("ok", "", FALSE, ZeroUnPadding(data), <<>>, <<"unpad">>)
  /\ UNCHANGED <<eng, rt>>
  /\ UNCHANGED <<kvars, pvars, xvars>>

\* the call has returned and the caller goes on; a panic aborts instead
Return ==
  /\ ~Idle
  /\ ret.status # "panic"
  /\ call' = NoCall
  /\ ret' = NoOutcome
  /\ rt' = NoRoundTrip
  /\ UNCHANGED eng
  /\ UNCHANGED <<kvars, pvars, xvars>>

Next ==
  \/ \E plainText \in Datas \cup ZeroDatas : CallEncrypt(plainText)
  \/ \E cipherText \in CipherTexts : CallDecrypt(cipherText)
  \/ CallDecryptResult
  \/ \E data \in Datas, blockSize \in PadSizes : CallPKCS5Padding(data, blockSize)
  \/ \E data \in Datas, blockSize \in PadSizes : CallPKCS5Unpadding(data, blockSize)
  \/ \E data \in Datas, blockSize \in PadSizes : CallZeroPadding(data, blockSize)
  \/ \E data \in Datas \cup ZeroDatas : CallZeroUnPadding(data)
  \/ Return

Spec == Init /\ [][Next]_vars

----------------------------------------------------------------------------
(* Properties of the cipher engines and padding functions.                 *)

Last(s) == s[Len(s)]

EngineCall == eng.kind \in {"CBC", "ECB"} /\ call.op \in {"Encrypt", "Decrypt"}

\* a key aes accepts and, for CBC, an IV of the block size
ValidEngine ==
  /\ eng.kind \in {"CBC", "ECB"}
  /\ Len(eng.key) \in {16, 24, 32}
  /\ eng.kind = "CBC" => Len(eng.iv) = 16
  /\ eng.mode \in {ZERO, PKCS5, PKCS7}

\* the unit a mode pads to: the cipher block size for PKCS#5, the key length
\* for PKCS#7
PadUnit == IF eng.mode = PKCS7 THEN Len(eng.key) ELSE 16

\* C1: round-trip law.  On an engine with a valid key and IV, in each of the
\* three padding modes, Encrypt returns without error or abort, and Decrypt of
\* what Encrypt returned gives back exactly the plaintext without error or
\* abort.
C1_RoundTrip ==
  ValidEngine =>
    /\ call.op = "Encrypt" => ret.status = "ok"
    /\ rt.active => ret.status = "ok" /\ ret.out = rt.plain

\* C4: a plaintext whose length is a multiple of the padding unit gets exactly
\* one full unit of padding, each byte holding the unit, from PKCS5Padding and
\* from Encrypt in PKCS#5 and PKCS#7 mode; the padding is never empty.
C4_AlignedAddsFullBlock ==
  /\ (call.op = "PKCS5Padding" /\ Len(call.arg) % call.blockSize = 0) =>
        ret.out = call.arg \o [i \in 1..call.blockSize |-> call.blockSize]
  /\ call.op = "PKCS5Padding" => Len(ret.out) > Len(call.arg)
  /\ (ValidEngine /\ call.op = "Encrypt" /\ eng.mode \in {PKCS5, PKCS7}) =>
        /\ Len(ret.buf) > Len(call.arg)
        /\ Len(call.arg) % PadUnit = 0 =>
             ret.buf = call.arg \o [i \in 1..PadUnit |-> PadUnit]

C4_Witness ==
  /\ ValidEngine
  /\ call.op = "Encrypt"
  /\ eng.mode = PKCS7
  /\ Len(eng.key) = 32
  /\ Len(call.arg) = 32
  /\ ret.status = "ok"
  /\ Len(ret.out) = 64

\* C5: PKCS5Unpadding on a buffer whose last byte is 0 or greater than
\* blockSize returns the buffer unchanged and does not abort; so does the
\* unpadding step of Decrypt in PKCS#5 and PKCS#7 mode.
C5_UnpadFallback ==
  /\ (/\ call.op = "PKCS5Unpadding"
      /\ Len(call.arg) > 0
      /\ (Last(call.arg) = 0 \/ Last(call.arg) > call.blockSize)) =>
        ret.status = "ok" /\ ret.out = call.arg
  /\ (/\ ValidEngine
      /\ call.op = "Decrypt"
      /\ eng.mode \in {PKCS5, PKCS7}
      /\ "unpad" \in {ret.work[i] : i \in 1..Len(ret.work)}
      /\ Len(ret.buf) > 0
      /\ (Last(ret.buf) = 0 \/ Last(ret.buf) > PadUnit)) =>
        ret.status = "ok" /\ ret.out = ret.buf

C5_Witness ==
  /\ call.op = "PKCS5Unpadding"
  /\ call.blockSize = 16
  /\ Len(call.arg) = 20
  /\ Last(call.arg) = 17
  /\ ret.status = "ok"
  /\ ret.out = call.arg

\* C6: a CBC engine whose IV is not 16 bytes long fails Encrypt and Decrypt
\* with an error and a nil result before padding and before any block is
\* encrypted or decrypted; with a 16-byte IV the IV error never occurs.
C6_IVChecked ==
  (eng.kind = "CBC" /\ call.op \in {"Encrypt", "Decrypt"}) =>
    /\ Len(eng.iv) # 16 =>
         /\ ret.status = "error"
         /\ ret.isNil
         /\ \A i \in 1..Len(ret.work) : ret.work[i] = "NewCipher"
    /\ Len(eng.iv) = 16 => ret.err # ErrIVLength

C6_Witness ==
  /\ eng.kind = "CBC"
  /\ Len(eng.key) = 24
  /\ Len(eng.iv) = 17
  /\ call.op = "Encrypt"
  /\ ret.status = "error"
  /\ ret.err = ErrIVLength

\* C7: on both engines, Encrypt and Decrypt with a key that is not 16, 24 or
\* 32 bytes long return the key-size error and a nil result, whatever the IV,
\* mode or data; the key error wins over the IV error.
C7_KeySetupError ==
  (EngineCall /\ Len(eng.key) \notin {16, 24, 32}) =>
    /\ ret.status = "error"
    /\ ret.isNil
    /\ ret.err = ErrKeySize

C7_Witness ==
  /\ eng.kind = "CBC"
  /\ Len(eng.key) = 15
  /\ Len(eng.iv) = 15
  /\ call.op = "Decrypt"
  /\ ret.status = "error"
  /\ ret.err = ErrKeySize

----------------------------------------------------------------------------
(* The key manager as a state machine: keys are loaded from PEM inputs,    *)
(* the private key signs, the public key verifies what was signed, as      *)
(* returned or with one bit of the signature flipped.                      *)

InitRSA ==
  /\ eng = NoEngine
  /\ CipherIdle
  /\ KeysIdle
  /\ ProtoIdle
  /\ OthersIdle

KeysAtRest == kcall.op = "none"

\* NewPrivateKeyFromPemBlock(pemBlock)
LoadPrivateKeyFromPemBlock(pemBlock) ==
  /\ KeysAtRest
  /\ LET r == NewPrivateKeyFromPemBlock(pemBlock) IN
       /\ kret' = r
       /\ priv' = IF r.status = "ok" THEN r.key ELSE priv
  /\ kcall' = [NoKeyCall EXCEPT !.op = "NewPrivateKeyFromPemBlock", !.pem = pemBlock]
  /\ UNCHANGED <<pub, signed>>
  /\ UNCHANGED <<cvars, pvars, xvars>>

\* NewPublicKeyFromPemBlock(pemBlock)
LoadPublicKeyFromPemBlock(pemBlock) ==
  /\ KeysAtRest
  /\ LET r == NewPublicKeyFromPemBlock(pemBlock) IN
       /\ kret' = r
       /\ pub' = IF r.status = "ok" THEN r.key ELSE pub
  /\ kcall' = [NoKeyCall EXCEPT !.op = "NewPublicKeyFromPemBlock", !.pem = pemBlock]
  /\ UNCHANGED <<priv, signed>>
  /\ UNCHANGED <<cvars, pvars, xvars>>

\* NewPublicKeyFromDerBlock(pemBlock)
LoadPublicKeyFromDerBlock(pemBlock) ==
  /\ KeysAtRest
  /\ LET r == NewPublicKeyFromDerBlock(pemBlock) IN
       /\ kret' = r
       /\ pub' = IF r.status = "ok" THEN r.key ELSE pub
  /\ kcall' = [NoKeyCall EXCEPT !.op = "NewPublicKeyFromDerBlock", !.pem = pemBlock]
  /\ UNCHANGED <<priv, signed>>
  /\ UNCHANGED <<cvars, pvars, xvars>>

\* priv.Sign(hash, data)
CallSign(hash, data) ==
  /\ KeysAtRest
  /\ priv.loaded
  /\ LET r == PrivateKey_Sign(priv, hash, data) IN
       /\ kret' = r
       /\ signed' = IF r.status = "ok"
                    THEN [valid |-> TRUE, hash |-> hash, data |-> data,
                          sig |-> r.sig, pair |-> priv.pair]
                    ELSE signed
  /\ kcall' = [NoKeyCall EXCEPT !.op = "Sign", !.hash = hash, !.data = data]
  /\ UNCHANGED <<priv, pub>>
  /\ UNCHANGED <<cvars, pvars, xvars>>

\* the signature bytes handed to Verify: as Sign returned them (flip = -1)
\* or with bit flip of them inverted
Presented(flip) == IF flip < 0 THEN signed.sig ELSE FlipBit(signed.sig, flip)

\* pub.Verify(hash, data, signature) on the last signature
CallVerify(hash, data, flip) ==
  /\ KeysAtRest
  /\ pub.loaded
  /\ signed.valid
  /\ flip < 8 * KeyPair(signed.pair).k
  /\ kret' = PublicKey_Verify(pub, hash, data, KeyPair(signed.pair).k, Presented(flip))
  /\ kcall' = [NoKeyCall EXCEPT !.op = "Verify", !.hash = hash, !.data = data,
                                !.flip = flip]
  /\ UNCHANGED <<priv, pub, signed>>
  /\ UNCHANGED <<cvars, pvars, xvars>>

\* the call has returned and the caller goes on; a panic aborts instead
ReturnKeys ==
  /\ ~KeysAtRest
  /\ kret.status # "panic"
  /\ kcall' = NoKeyCall
  /\ kret' = NoKeyOutcome
  /\ UNCHANGED <<priv, pub, signed>>
  /\ UNCHANGED <<cvars, pvars, xvars>>

NextRSA ==
  \/ \E pemBlock \in PemInputs : LoadPrivateKeyFromPemBlock(pemBlock)
  \/ \E pemBlock \in PemInputs : LoadPublicKeyFromPemBlock(pemBlock)
  \/ \E pemBlock \in PemInputs : LoadPublicKeyFromDerBlock(pemBlock)
  \/ \E hash \in Hashes, data \in SignDatas : CallSign(hash, data)
  \/ \E hash \in Hashes, data \in SignDatas, flip \in -1..15 : CallVerify(hash, data, flip)
  \/ ReturnKeys

SpecRSA == InitRSA /\ [][NextRSA]_vars

----------------------------------------------------------------------------
(* Properties of the key manager.                                          *)

LoaderCall ==
  kcall.op \in {"NewPrivateKeyFromPemBlock", "NewPublicKeyFromPemBlock",
                "NewPublicKeyFromDerBlock"}

\* the DER format the called loader parses
LoaderFormat ==
  CASE kcall.op = "NewPublicKeyFromPemBlock" -> {"pkix"}
    [] kcall.op = "NewPublicKeyFromDerBlock" -> {"cert"}
    [] kcall.op = "NewPrivateKeyFromPemBlock" /\ kcall.pem.type = RSAPKCS1 -> {"pkcs1"}
    [] kcall.op = "NewPrivateKeyFromPemBlock" /\ kcall.pem.type = RSAPKCS8 -> {"pkcs8"}
    [] OTHER -> {}

\* C8: a key loader returns an error, and neither aborts nor returns a key
\* object, when no PEM block is found, when the private-key header tag is
\* neither RSA PRIVATE KEY nor PRIVATE KEY, and when the parsed key is not an
\* RSA key.
C8_LoadersReturnErrors ==
  LoaderCall =>
    /\ kret.status # "panic"
    /\ (\/ ~kcall.pem.found
        \/ (kcall.op = "NewPrivateKeyFromPemBlock"
              /\ kcall.pem.type \notin {"RSA PRIVATE KEY", "PRIVATE KEY"})
        \/ (kcall.pem.body.format \in LoaderFormat /\ kcall.pem.body.alg # "rsa")) =>
          kret.status = "error" /\ ~kret.key.loaded

\* C9: Sign and Verify with a digest that is not available return the
\* unsupported-digest error without hashing and without the RSA operation;
\* Sign returns a nil signature.
C9_UnsupportedDigest ==
  (kcall.op \in {"Sign", "Verify"} /\ kcall.hash \notin {"SHA1", "SHA256"}) =>
    /\ kret.status = "error"
    /\ kret.err = ErrHashUnavailable
    /\ kret.work = <<>>
    /\ kret.sigNil

C9_Witness ==
  /\ kcall.op = "Sign"
  /\ kcall.hash = "MD4"
  /\ kcall.data = <<1, 2>>
  /\ kret.status = "error"
  /\ kret.err = ErrHashUnavailable

\* the verified signature was made by the private key matching pub
Matching == signed.valid /\ pub.loaded /\ pub.pair = signed.pair

\* C10 as stated: with an available digest, Sign succeeds for every key pair
\* and data, Verify of the signature as returned succeeds under the matching
\* public key, and Verify of a signature with one bit flipped, or on other
\* data, returns an error.
C10_SignVerifyLaw ==
  /\ (kcall.op = "Sign" /\ kcall.hash \in {"SHA1", "SHA256"}) => kret.status = "ok"
  /\ (kcall.op = "Verify" /\ Matching /\ kcall.hash = signed.hash) =>
       /\ (kcall.flip < 0 /\ kcall.data = signed.data) => kret.status = "ok"
       /\ (kcall.flip >= 0 /\ kcall.data = signed.data) =>
            kret.status = "error" /\ kret.err = ErrVerification
       /\ (kcall.flip < 0 /\ kcall.data # signed.data) =>
            kret.status = "error" /\ kret.err = ErrVerification

\* C10 amended: the same law for the key pairs whose modulus is long enough
\* for the digest's encoded message; with a shorter modulus Sign returns an
\* error and a nil signature.
C10_SignVerifyLawFitting ==
  /\ (kcall.op = "Sign" /\ kcall.hash \in {"SHA1", "SHA256"}) =>
       IF KeyPair(priv.pair).k >= EMLen(kcall.hash)
       THEN kret.status = "ok" /\ ~kret.sigNil
       ELSE kret.status = "error" /\ kret.sigNil
  /\ (kcall.op = "Verify" /\ Matching /\ kcall.hash = signed.hash) =>
       /\ (kcall.flip < 0 /\ kcall.data = signed.data) => kret.status = "ok"
       /\ (kcall.flip >= 0 /\ kcall.data = signed.data) =>
            kret.status = "error" /\ kret.err = ErrVerification
       /\ (kcall.flip < 0 /\ kcall.data # signed.data) =>
            kret.status = "error" /\ kret.err = ErrVerification

C10_Witness ==
  /\ kcall.op = "Verify"
  /\ Matching
  /\ signed.pair = 1
  /\ signed.hash = "SHA256"
  /\ kcall.hash = "SHA256"
  /\ signed.data = <<1, 2>>
  /\ kcall.data = <<1, 2>>
  /\ kcall.flip = 3
  /\ kret.status = "error"
  /\ kret.err = ErrVerification

----------------------------------------------------------------------------
(* The callback-message flows as a state machine.  Outbound: Plain ->      *)
(* Framed -> Encrypted -> Signed -> OutDone.  The response travels to the  *)
(* receiver, intact or with one field altered on the way.  Inbound:        *)
(* Received -> SignatureChecked -> Decrypted -> Unframed -> Done, or       *)
(* Failed with the error of the stage that failed.                         *)

InitProto ==
  /\ eng = NoEngine
  /\ CipherIdle
  /\ KeysIdle
  /\ ProtoIdle
  /\ OthersIdle

\* Encrypt-and-sign(payload, identity) is called
StartReply(payload, identity, random) ==
  /\ pstage = "Idle"
  /\ pstage' = "Plain"
  /\ pout' = [NoOutbound EXCEPT !.payload = payload, !.identity = identity,
                                !.random = random]
  /\ UNCHANGED <<pin, ptrail>>
  /\ UNCHANGED <<cvars, kvars, xvars>>

\* the frame is built
FrameReply ==
  /\ pstage = "Plain"
  /\ pstage' = "Framed"
  /\ pout' = [pout EXCEPT !.buf = BuildFrame(pout.random, pout.payload, pout.identity)]
  /\ UNCHANGED <<pin, ptrail>>
  /\ UNCHANGED <<cvars, kvars, xvars>>

\* the frame is PKCS#7-padded, CBC-encrypted and base64-encoded
EncryptReply ==
  /\ pstage = "Framed"
  /\ LET r == cbccrypto_Encrypt(ProtoEngine, pout.buf) IN
       IF r.status = "ok"
       THEN /\ pstage' = "Encrypted"
            /\ pout' = [pout EXCEPT !.buf = r.out, !.ciphertext = Base64Encode(r.out)]
       ELSE /\ pstage' = "OutFailed"
            /\ pout' = pout
  /\ UNCHANGED <<pin, ptrail>>
  /\ UNCHANGED <<cvars, kvars, xvars>>

\* a fresh timestamp and nonce are drawn and the signature is computed
SignReply(timestamp, nonce) ==
  /\ pstage = "Encrypted"
  /\ pstage' = "Signed"
  /\ pout' = [pout EXCEPT !.timestamp = timestamp, !.nonce = nonce,
                          !.signature = Signature(Token, timestamp, nonce, pout.ciphertext)]
  /\ UNCHANGED <<pin, ptrail>>
  /\ UNCHANGED <<cvars, kvars, xvars>>

\* the response fields are assembled and returned
FinishReply ==
  /\ pstage = "Signed"
  /\ pstage' = "OutDone"
  /\ UNCHANGED <<pout, pin, ptrail>>
  /\ UNCHANGED <<cvars, kvars, xvars>>

Envelope ==
  [NoInbound EXCEPT !.timestamp = pout.timestamp, !.nonce = pout.nonce,
                    !.signature = pout.signature, !.ciphertext = pout.ciphertext]

\* a text of the same length that differs in its first character
AlterText(t) == [i \in 1..Len(t) |-> IF i = 1 THEN (IF t[1] = 65 THEN 66 ELSE 65) ELSE t[i]]

\* the envelope reaches Decrypt-and-verify as it was sent
DeliverIntact ==
  /\ pstage = "OutDone"
  /\ pstage' = "Received"
  /\ pin' = Envelope
  /\ ptrail' = <<"Received">>
  /\ UNCHANGED pout
  /\ UNCHANGED <<cvars, kvars, xvars>>

\* the envelope reaches Decrypt-and-verify with its timestamp altered
DeliverAlteredTimestamp(timestamp) ==
  /\ pstage = "OutDone"
  /\ timestamp # pout.timestamp
  /\ pstage' = "Received"
  /\ pin' = [Envelope EXCEPT !.timestamp = timestamp, !.altered = "timestamp"]
  /\ ptrail' = <<"Received">>
  /\ UNCHANGED pout
  /\ UNCHANGED <<cvars, kvars, xvars>>

\* the envelope reaches Decrypt-and-verify with its nonce altered
DeliverAlteredNonce(nonce) ==
  /\ pstage = "OutDone"
  /\ nonce # pout.nonce
  /\ pstage' = "Received"
  /\ pin' = [Envelope EXCEPT !.nonce = nonce, !.altered = "nonce"]
  /\ ptrail' = <<"Received">>
  /\ UNCHANGED pout
  /\ UNCHANGED <<cvars, kvars, xvars>>

\* the envelope reaches Decrypt-and-verify with its ciphertext altered
DeliverAlteredCiphertext ==
  /\ pstage = "OutDone"
  /\ pstage' = "Received"
  /\ pin' = [Envelope EXCEPT !.ciphertext = AlterText(pout.ciphertext),
                             !.altered = "ciphertext"]
  /\ ptrail' = <<"Received">>
  /\ UNCHANGED pout
  /\ UNCHANGED <<cvars, kvars, xvars>>

\* step 1: the expected signature is compared with the provided one
CheckSignature ==
  /\ pstage = "Received"
  /\ IF Signature(Token, pin.timestamp, pin.nonce, pin.ciphertext) = pin.signature
     THEN /\ pstage' = "SignatureChecked"
          /\ pin' = pin
     ELSE /\ pstage' = "Failed"
          /\ pin' = [pin EXCEPT !.err = "SignatureMismatch"]
  /\ ptrail' = Append(ptrail, pstage')
  /\ UNCHANGED pout
  /\ UNCHANGED <<cvars, kvars, xvars>>

\* step 2: base64-decode, CBC-decrypt, remove the PKCS#7 padding
DecryptBody ==
  /\ pstage = "SignatureChecked"
  /\ LET raw == Base64Decode(pin.ciphertext)
         r == IF raw.ok THEN cbccrypto_Decrypt(ProtoEngine, raw.bytes) ELSE NoOutcome
     IN  IF raw.ok /\ r.status = "ok"
         THEN /\ pstage' = "Decrypted"
              /\ pin' = [pin EXCEPT !.buf = r.out, !.decrypted = TRUE]
         ELSE /\ pstage' = "Failed"
              /\ pin' = [pin EXCEPT !.err = "DecryptionFailed"]
  /\ ptrail' = Append(ptrail, pstage')
  /\ UNCHANGED pout
  /\ UNCHANGED <<cvars, kvars, xvars>>

\* step 3: the frame is parsed and the identity compared with the configured
\* one
Unframe ==
  /\ pstage = "Decrypted"
  /\ LET f == ParseFrame(pin.buf, AppID) IN
       IF f.err = ""
       THEN /\ pstage' = "Unframed"
            /\ pin' = [pin EXCEPT !.payload = f.payload, !.identity = f.identity]
       ELSE /\ pstage' = "Failed"
            /\ pin' = [pin EXCEPT !.err = f.err]
  /\ ptrail' = Append(ptrail, pstage')
  /\ UNCHANGED pout
  /\ UNCHANGED <<cvars, kvars, xvars>>

\* the validated plaintext and identity are returned
FinishInbound ==
  /\ pstage = "Unframed"
  /\ pstage' = "Done"
  /\ ptrail' = Append(ptrail, "Done")
  /\ UNCHANGED <<pout, pin>>
  /\ UNCHANGED <<cvars, kvars, xvars>>

NextProto ==
  \/ \E payload \in Payloads, identity \in Identities, random \in Randoms :
        StartReply(payload, identity, random)
  \/ FrameReply
  \/ EncryptReply
  \/ \E timestamp \in Timestamps, nonce \in Nonces : SignReply(timestamp, nonce)
  \/ FinishReply
  \/ DeliverIntact
  \/ \E timestamp \in Timestamps : DeliverAlteredTimestamp(timestamp)
  \/ \E nonce \in Nonces : DeliverAlteredNonce(nonce)
  \/ DeliverAlteredCiphertext
  \/ CheckSignature
  \/ DecryptBody
  \/ Unframe
  \/ FinishInbound

SpecProto == InitProto /\ [][NextProto]_vars

----------------------------------------------------------------------------
(* Properties of the callback-message protocol.                            *)

InboundStages == <<"Received", "SignatureChecked", "Decrypted", "Unframed", "Done">>

\* the inbound call went through the stages in their order, and stopped at
\* the first failure
InOrder ==
  \/ \E n \in 0..5 : ptrail = SubSeq(InboundStages, 1, n)
  \/ \E n \in 1..4 : ptrail = Append(SubSeq(InboundStages, 1, n), "Failed")

\* nothing is decrypted before the signature has been found to match
SignatureFirst ==
  (pin.decrypted \/ pin.buf # <<>> \/ pin.payload # <<>>) =>
    /\ Len(ptrail) >= 2
    /\ ptrail[2] = "SignatureChecked"
    /\ HexEncode(Digest20(SortedConcat(<<Token, pin.timestamp, pin.nonce, pin.ciphertext>>)))
         = pin.signature

\* the call was rejected at the signature check, before any decryption
Rejected ==
  /\ pstage = "Failed"
  /\ pin.err = "SignatureMismatch"
  /\ ptrail = <<"Received", "Failed">>
  /\ ~pin.decrypted
  /\ pin.buf = <<>>
  /\ pin.payload = <<>>

InboundChecked == pstage \in {"SignatureChecked", "Decrypted", "Unframed", "Done", "Failed"}

SignedText(e) == SortedConcat(<<Token, e.timestamp, e.nonce, e.ciphertext>>)

\* the altered field has another length than the one sent
LengthChanged ==
  \/ Len(pin.timestamp) # Len(pout.timestamp)
  \/ Len(pin.nonce) # Len(pout.nonce)
  \/ Len(pin.ciphertext) # Len(pout.ciphertext)

----------------------------------------------------------------------------
(* Concurrent callers of one engine.  Each caller hands in a slice of one  *)
(* backing array, b[off : off+len : off+cap].  A call advances in the      *)
(* steps of Encrypt and Decrypt: aes.NewCipher with the IV check, the pad  *)
(* switch (whose append writes behind the slice when its capacity allows), *)
(* CryptBlocks into a buffer of its own, the unpad switch.  Steps of the   *)
(* two goroutines interleave freely; a panic ends the program.             *)

\* the bytes the backing array holds when the calls begin
HeapInit == [i \in 1..HeapLen |-> (3 * i + 1) % 256]

\* the slices the callers hand in
CallerSlices ==
  {s \in [off : {0, 16}, len : {5, 16}, cap : 0..HeapLen] :
     /\ s.off + s.cap <= HeapLen
     /\ s.cap \in {s.len, HeapLen - s.off}}

\* engines whose key and IV pass the checks of Encrypt and Decrypt
SharedEngines ==
  {e \in Engines : KeySizeOK(e.key) /\ (e.kind = "CBC" => Len(e.iv) = BlockSize)}

\* the bytes a slice shows
SliceBytes(h, s) == SubSeq(h, s.off + 1, s.off + s.len)

\* append(s, t...): in place when len(s)+len(t) <= cap(s), else into a new
\* array that holds a copy
GoAppend(h, s, t) ==
  IF s.len + Len(t) <= s.cap
  THEN [shared |-> TRUE,
        heap   |-> [i \in 1..Len(h) |->
                      IF i > s.off + s.len /\ i <= s.off + s.len + Len(t)
                      THEN t[i - s.off - s.len] ELSE h[i]],
        slice  |-> [s EXCEPT !.len = s.len + Len(t)],
        buf    |-> <<>>]
  ELSE [shared |-> FALSE, heap |-> h, slice |-> NoSlice,
        buf |-> SliceBytes(h, s) \o t]

InitShared ==
  /\ eng \in SharedEngines
  /\ CipherIdle
  /\ KeysIdle
  /\ ProtoIdle
  /\ heap = HeapInit
  /\ gor = [g \in Goroutines |-> NoGoroutine]
  /\ bm = NoBlockCall
  /\ api = NoApiCall

Aborted == \E g \in Goroutines : gor[g].status = "panic"

\* go c.Encrypt(plainText) / go c.Decrypt(cipherText)
GoCall(g, op, s) ==
  /\ ~Aborted
  /\ gor[g].pc = "idle"
  /\ gor' = [gor EXCEPT ![g] =
               [NoGoroutine EXCEPT !.pc = "NewCipher", !.op = op, !.arg = s,
                                   !.engine = eng, !.input = SliceBytes(heap, s)]]
  /\ UNCHANGED <<heap, bm, api>>
  /\ UNCHANGED <<cvars, kvars, pvars>>

\* block, err := aes.NewCipher(c.key), and the IV check of the CBC engine
GoNewCipher(g) ==
  /\ ~Aborted
  /\ gor[g].pc = "NewCipher"
  /\ gor' = [gor EXCEPT ![g] =
               IF ~KeySizeOK(eng.key)
               THEN [@ EXCEPT !.pc = "done", !.status = "error", !.err = ErrKeySize]
               ELSE IF eng.kind = "CBC" /\ IVLengthBad(eng)
               THEN [@ EXCEPT !.pc = "done", !.status = "error", !.err = ErrIVLength]
               ELSE [@ EXCEPT !.pc = IF gor[g].op = "Encrypt" THEN "pad" ELSE "CryptBlocks"]]
  /\ UNCHANGED <<heap, bm, api>>
  /\ UNCHANGED <<cvars, kvars, pvars>>

\* the switch on c.mode of Encrypt: plainText = append(plainText, padText...)
GoPad(g) ==
  /\ ~Aborted
  /\ gor[g].pc = "pad"
  /\ LET s       == gor[g].arg
         padded  == PadForMode(eng.mode, eng.key, SliceBytes(heap, s))
         padText == SubSeq(padded, s.len + 1, Len(padded))
         a       == GoAppend(heap, s, padText)
     IN  /\ heap' = a.heap
         /\ gor' = [gor EXCEPT ![g] =
                      [@ EXCEPT !.pc = "CryptBlocks", !.shared = a.shared,
                                !.padded = a.slice, !.buf = a.buf]]
  /\ UNCHANGED <<bm, api>>
  /\ UNCHANGED <<cvars, kvars, pvars>>

\* blockMode.CryptBlocks(dst, src) with dst made by the call
GoCryptBlocks(g) ==
  /\ ~Aborted
  /\ gor[g].pc = "CryptBlocks"
  /\ LET src == IF gor[g].op = "Decrypt" THEN SliceBytes(heap, gor[g].arg)
                ELSE IF gor[g].shared THEN SliceBytes(heap, gor[g].padded)
                ELSE gor[g].buf
     IN  gor' = [gor EXCEPT ![g] =
           IF ~FullBlocks(src)
           THEN [@ EXCEPT !.pc = "done", !.status = "panic", !.err = PanicFullBlocks]
           ELSE IF gor[g].op = "Encrypt"
           THEN [@ EXCEPT !.pc = "done", !.status = "ok",
                          !.out = IF eng.kind = "CBC"
                                  THEN CBCEncryptBlocks(eng.key, eng.iv, src)
                                  ELSE ecbEncrypter_CryptBlocks(eng.key, src)]
           ELSE [@ EXCEPT !.pc = "unpad",
                          !.buf = IF eng.kind = "CBC"
                                  THEN CBCDecryptBlocks(eng.key, eng.iv, src)
                                  ELSE ecbDecrypter_CryptBlocks(eng.key, src)]]
  /\ UNCHANGED <<heap, bm, api>>
  /\ UNCHANGED <<cvars, kvars, pvars>>

\* the switch on c.mode of Decrypt
GoUnpad(g) ==
  /\ ~Aborted
  /\ gor[g].pc = "unpad"
  /\ LET un == UnpadForMode(eng.mode, eng.key, gor[g].buf)
     IN  gor' = [gor EXCEPT ![g] =
           IF un.panicked
           THEN [@ EXCEPT !.pc = "done", !.status = "panic", !.err = PanicIndex]
           ELSE [@ EXCEPT !.pc = "done", !.status = "ok", !.out = un.out]]
  /\ UNCHANGED <<heap, bm, api>>
  /\ UNCHANGED <<cvars, kvars, pvars>>

NextShared ==
  \/ \E g \in Goroutines, op \in {"Encrypt", "Decrypt"}, s \in CallerSlices : GoCall(g, op, s)
  \/ \E g \in Goroutines : GoNewCipher(g)
  \/ \E g \in Goroutines : GoPad(g)
  \/ \E g \in Goroutines : GoCryptBlocks(g)
  \/ \E g \in Goroutines : GoUnpad(g)

SpecShared == InitShared /\ [][NextShared]_vars

----------------------------------------------------------------------------
(* Properties of concurrent calls.                                         *)

\* what the call of a goroutine returns when no other call runs
Alone(g) ==
  IF gor[g].op = "Encrypt" THEN Encrypt(gor[g].engine, gor[g].input)
  ELSE Decrypt(gor[g].engine, gor[g].input)

Finished(g) == gor[g].pc = "done"

\* C11: no Encrypt or Decrypt call changes the engine's key, IV or padding
\* mode, and under every interleaving of concurrent calls on one engine each
\* call ends as it would have ended alone, with the same result.
C11_ConcurrentReuse ==
  \A g \in Goroutines :
    Finished(g) =>
      /\ eng = gor[g].engine
      /\ gor[g].status = Alone(g).status
      /\ gor[g].out = Alone(g).out

\* C18: Encrypt leaves every byte of the caller's backing array as it was,
\* the bytes between len and cap included, so concurrent Encrypt calls on
\* slices of one backing array return what they return alone.
C18_CallerBufferUnchanged ==
  /\ (\E g \in Goroutines : gor[g].op = "Encrypt") => heap = HeapInit
  /\ \A g \in Goroutines :
       (Finished(g) /\ gor[g].op = "Encrypt" /\ gor[g].status = "ok") =>
         gor[g].out = Alone(g).out

----------------------------------------------------------------------------
(* Further properties of the cipher engines and padding functions.         *)

\* the stages a call went through
Stages == {ret.work[i] : i \in 1..Len(ret.work)}

\* len(p) + (U - len(p) mod U)
PaddedLen(n, unit) == n + (unit - (n % unit))

\* C12: in PKCS#5 mode Encrypt pads to a multiple of 16, in PKCS#7 mode to a
\* multiple of the key length; the ciphertext it returns is as long as the
\* padded plaintext, len(p) + (U - len(p) mod U); Decrypt removes a padding
\* of up to U bytes, U being the same unit.
C12_PaddingUnit ==
  /\ (ValidEngine /\ call.op = "Encrypt" /\ eng.mode \in {PKCS5, PKCS7}) =>
        /\ Len(ret.buf) = PaddedLen(Len(call.arg), PadUnit)
        /\ Len(ret.buf) % PadUnit = 0
        /\ ret.status = "ok" => Len(ret.out) = PaddedLen(Len(call.arg), PadUnit)
  /\ (/\ ValidEngine
      /\ call.op = "Decrypt"
      /\ eng.mode \in {PKCS5, PKCS7}
      /\ "unpad" \in Stages
      /\ Len(ret.buf) > 0
      /\ Last(ret.buf) \in 1..PadUnit
      /\ Last(ret.buf) <= Len(ret.buf)) =>
        /\ ret.status = "ok"
        /\ ret.out = SubSeq(ret.buf, 1, Len(ret.buf) - Last(ret.buf))

C12_Witness ==
  /\ ValidEngine
  /\ eng.mode = PKCS7
  /\ Len(eng.key) = 32
  /\ rt.active
  /\ Len(rt.plain) = 5
  /\ Len(call.arg) = 32
  /\ Last(ret.buf) = 27
  /\ ret.status = "ok"
  /\ ret.out = rt.plain

\* C19: whole-block invariant of Encrypt.  For every valid key length, every
\* padding mode and every plaintext, the padded buffer handed to the block
\* mode has a length that is a multiple of 16, Encrypt does not abort inside
\* CryptBlocks and the ciphertext it returns has a length that is a multiple
\* of 16.
C19_WholeBlocks ==
  (ValidEngine /\ call.op = "Encrypt") =>
    /\ Len(ret.buf) % BlockSize = 0
    /\ ret.status = "ok"
    /\ Len(ret.out) % BlockSize = 0

\* C20: PKCS5Unpadding is total and returns a prefix of its input; Decrypt in
\* PKCS#5 or PKCS#7 mode on a ciphertext whose length is a multiple of 16
\* returns a plaintext or an error and never aborts.
C20_UnpaddingTotal ==
  /\ call.op = "PKCS5Unpadding" =>
        /\ ret.status = "ok"
        /\ Len(ret.out) <= Len(call.arg)
        /\ ret.out = SubSeq(call.arg, 1, Len(ret.out))
  /\ (/\ ValidEngine
      /\ call.op = "Decrypt"
      /\ eng.mode \in {PKCS5, PKCS7}
      /\ Len(call.arg) % BlockSize = 0) =>
        ret.status \in {"ok", "error"}

\* s without its trailing zero bytes
TrimZeros(s) ==
  LET nonzero == {i \in 1..Len(s) : s[i] # 0}
  IN  IF nonzero = {} THEN <<>>
      ELSE SubSeq(s, 1, CHOOSE i \in nonzero : \A j \in nonzero : j <= i)

\* C21: the ZERO-mode round trip.  For every valid key, IV and plaintext,
\* Decrypt of what Encrypt returned is the plaintext without its trailing zero
\* bytes; it is the plaintext itself exactly when the plaintext is empty or
\* ends in a non-zero byte, and it is never longer than the plaintext.
C21_ZeroRoundTrip ==
  (ValidEngine /\ eng.mode = ZERO /\ rt.active) =>
    /\ ret.status = "ok"
    /\ ret.out = TrimZeros(rt.plain)
    /\ ret.out = rt.plain <=> (Len(rt.plain) = 0 \/ Last(rt.plain) # 0)
    /\ Len(ret.out) <= Len(rt.plain)

C21_Witness ==
  /\ ValidEngine
  /\ eng.kind = "CBC"
  /\ eng.mode = ZERO
  /\ Len(eng.key) = 24
  /\ rt.active
  /\ rt.plain = <<7, 0, 7, 200, 0, 0, 0>>
  /\ Len(call.arg) = 16
  /\ ret.status = "ok"
  /\ ret.out = <<7, 0, 7, 200>>

----------------------------------------------------------------------------
(* The API client.  An action carries its method, URL, body and decoder;   *)
(* Do executes it with an access token on the transport client.  The       *)
(* transport is the generated MockClient behind a gomock controller, set   *)
(* up as the tests set it up: one expected call, with its return values.    *)
(* A URL is the sequence of the pieces it is formatted from.               *)

GET == "GET"
POST == "POST"

\* the action of GetUser(params, result): a GET with a decoder
GetUser ==
  [method |-> GET, base |-> "https://api.weixin.qq.com/cgi-bin/user/info",
   query |-> <<"&lang=zh_CN&openid=OPENID">>, body |-> "", hasDecode |-> TRUE]

\* the action of BlackUsers(openids...): a POST with a JSON body
BlackUsers ==
  [method |-> POST,
   base |-> "https://api.weixin.qq.com/cgi-bin/tags/members/batchblacklist",
   query |-> <<>>, body |-> "{openid_list:[OPENID1,OPENID2]}", hasDecode |-> FALSE]

\* a POST action with body and decoder, as wx.NewPostAction(url, WithBody, WithDecode)
GetUserRiskRank ==
  [method |-> POST, base |-> "urls.MinipUserRiskRank",
   query |-> <<>>, body |-> "json.Marshal(params)", hasDecode |-> TRUE]

Actions == {GetUser, BlackUsers, GetUserRiskRank}

AccessTokens == {"ACCESS_TOKEN", "ACCESS_TOKEN_2"}

\* what the transport is told to return: the response bytes, or an error
Responses == {"{errcode:0,errmsg:ok}", "{subscribe:1,openid:o6_bmjrPTlm6_2sgVt7hMZOPfL2M}"}

TransportErrors == {"", "transport error"}

DecodeErrors == {"", "decode error"}

\* a plausible slip: the token is left out of the URL
ActionURL_NoToken(action, accessToken) ==
  <<action.base, "?access_token=">> \o action.query

\* action.URL(accessToken): fmt.Sprintf("%s?access_token=%s", url, accessToken)
\* followed by the action's own query
ActionURL(action, accessToken) ==
  <<action.base, "?access_token=", accessToken>> \o action.query

\* the reqURL the tests expect, as written in the EXPECT() calls
ExpectedURL(action, accessToken) ==
  <<action.base, "?access_token=", accessToken>> \o action.query

\* client.EXPECT().Get(ctx, reqURL).Return(resp, err) /
\* client.EXPECT().Post(ctx, reqURL, body).Return(resp, err): one call
\* expected, once
RecordCall(ctrl, method, args, resp, err) ==
  [ctrl EXCEPT !.expected =
     Append(@, [method |-> method, args |-> args, resp |-> resp, err |-> err, left |-> 1])]

\* ctrl.Call(m, method, args...): the first expected call that matches and
\* is not exhausted supplies the return values; none matching is fatal
ctrl_Call(ctrl, method, args) ==
  LET hits == {i \in 1..Len(ctrl.expected) :
                 /\ ctrl.expected[i].method = method
                 /\ ctrl.expected[i].args = args
                 /\ ctrl.expected[i].left > 0}
      logged == [ctrl EXCEPT !.log = Append(@, [method |-> method, args |-> args])]
  IN  IF hits = {}
      THEN [fatal |-> "unexpected call", resp |-> "", err |-> "", ctrl |-> logged]
      ELSE LET i == CHOOSE i \in hits : \A j \in hits : i <= j
           IN  [fatal |-> "", resp |-> ctrl.expected[i].resp, err |-> ctrl.expected[i].err,
                ctrl |-> [logged EXCEPT !.expected[i].left = @ - 1]]

\* (*MockClient).Get(ctx, reqURL)
MockClient_Get(ctrl, reqURL) == ctrl_Call(ctrl, "Get", <<reqURL>>)

\* (*MockClient).Post(ctx, reqURL, body)
MockClient_Post(ctrl, reqURL, body) == ctrl_Call(ctrl, "Post", <<reqURL, body>>)

InitAPI ==
  /\ eng = NoEngine
  /\ CipherIdle
  /\ KeysIdle
  /\ ProtoIdle
  /\ OthersIdle

\* the test sets up the mock client and calls oa.Do(ctx, accessToken, action)
CallDo(action, accessToken, resp, terr, derr) ==
  /\ api.pc = "idle"
  /\ api' = [NoApiCall EXCEPT
               !.pc = "Do", !.action = action, !.token = accessToken, !.derr = derr,
               !.ctrl = RecordCall(NoController,
                          IF action.method = GET THEN "Get" ELSE "Post",
                          IF action.method = GET
                          THEN <<ExpectedURL(action, accessToken)>>
                          ELSE <<ExpectedURL(action, accessToken), action.body>>,
                          IF terr = "" THEN resp ELSE "", terr)]
  /\ UNCHANGED <<heap, gor, bm>>
  /\ UNCHANGED <<cvars, kvars, pvars>>

\* Do issues the request on the method of the action
DoTransport ==
  /\ api.pc = "Do"
  /\ LET reqURL == ActionURL(api.action, api.token)
         r == IF api.action.method = GET
              THEN MockClient_Get(api.ctrl, reqURL)
              ELSE MockClient_Post(api.ctrl, reqURL, api.action.body)
     IN  api' = IF r.fatal # ""
                THEN [api EXCEPT !.pc = "fatal", !.fatal = r.fatal, !.ctrl = r.ctrl]
                ELSE IF r.err # ""
                THEN [api EXCEPT !.pc = "returned", !.ctrl = r.ctrl, !.err = r.err,
                                 !.result = r.err]
                ELSE [api EXCEPT !.pc = "decode", !.ctrl = r.ctrl, !.resp = r.resp]
  /\ UNCHANGED <<heap, gor, bm>>
  /\ UNCHANGED <<cvars, kvars, pvars>>

\* Do hands the response to the decoder of the action, if it has one
DoDecode ==
  /\ api.pc = "decode"
  /\ api' = IF api.action.hasDecode
            THEN [api EXCEPT !.pc = "returned", !.decoded = api.resp,
                             !.result = IF api.derr = "" THEN "nil" ELSE api.derr]
            ELSE [api EXCEPT !.pc = "returned", !.result = "nil"]
  /\ UNCHANGED <<heap, gor, bm>>
  /\ UNCHANGED <<cvars, kvars, pvars>>

\* ctrl.Finish(): an expected call that was not made is fatal
Finish ==
  /\ api.pc = "returned"
  /\ api' = IF \E i \in 1..Len(api.ctrl.expected) : api.ctrl.expected[i].left > 0
            THEN [api EXCEPT !.pc = "fatal", !.fatal = "missing call"]
            ELSE [api EXCEPT !.pc = "finished"]
  /\ UNCHANGED <<heap, gor, bm>>
  /\ UNCHANGED <<cvars, kvars, pvars>>

NextAPI ==
  \/ \E action \in Actions, accessToken \in AccessTokens, resp \in Responses,
        terr \in TransportErrors, derr \in DecodeErrors :
        CallDo(action, accessToken, resp, terr, derr)
  \/ DoTransport
  \/ DoDecode
  \/ Finish

SpecAPI == InitAPI /\ [][NextAPI]_vars

----------------------------------------------------------------------------
(* Properties of the API client.                                           *)

\* the calls the transport client received
TransportLog == api.ctrl.log

\* the access token stands in the URL right behind "?access_token="
TokenEmbedded(url, accessToken) ==
  \E i \in 1..(Len(url) - 1) : url[i] = "?access_token=" /\ url[i + 1] = accessToken

DoRunning == api.pc \in {"decode", "returned", "finished", "fatal"}

----------------------------------------------------------------------------
(* Shapes of the padding functions called directly.                        *)

\* C14: for every data and every blockSize in 1..255, PKCS5Padding returns
\* the data followed by exactly N bytes of value N, with
\* N = blockSize - (len(data) mod blockSize) and 1 <= N <= blockSize; the
\* result length is a multiple of blockSize and the data is its prefix.
C14_PKCSPadShape ==
  (call.op = "PKCS5Padding" /\ call.blockSize \in 1..255) =>
    LET n == Len(call.arg)
        N == call.blockSize - (n % call.blockSize)
    IN  /\ N >= 1
        /\ N <= call.blockSize
        /\ ret.status = "ok"
        /\ Len(ret.out) = n + N
        /\ Len(ret.out) % call.blockSize = 0
        /\ SubSeq(ret.out, 1, n) = call.arg
        /\ \A i \in (n + 1)..(n + N) : ret.out[i] = N

C14_Witness ==
  /\ call.op = "PKCS5Padding"
  /\ call.blockSize = 255
  /\ Len(call.arg) = 33
  /\ Len(ret.out) = 255
  /\ Last(ret.out) = 222

\* C15: for every data and block size, ZeroPadding appends exactly
\* blockSize - (len(data) mod blockSize) zero bytes, a full block of zeros
\* when len(data) is a multiple of blockSize; it always pads, and the result
\* length is a multiple of blockSize.
C15_ZeroPadShape ==
  call.op = "ZeroPadding" =>
    LET n == Len(call.arg)
        N == call.blockSize - (n % call.blockSize)
    IN  /\ ret.status = "ok"
        /\ Len(ret.out) = n + N
        /\ Len(ret.out) > n
        /\ n % call.blockSize = 0 => Len(ret.out) = n + call.blockSize
        /\ Len(ret.out) % call.blockSize = 0
        /\ SubSeq(ret.out, 1, n) = call.arg
        /\ \A i \in (n + 1)..Len(ret.out) : ret.out[i] = 0

C15_Witness ==
  /\ call.op = "ZeroPadding"
  /\ call.blockSize = 16
  /\ Len(call.arg) = 32
  /\ Len(ret.out) = 48
  /\ \A i \in 33..48 : ret.out[i] = 0

\* C16: ZeroUnPadding returns the longest prefix of its input that does not
\* end in a zero byte: every trailing zero byte is cut and nothing else is
\* changed; cutting again changes nothing; an all-zero or empty buffer gives
\* the empty buffer.
C16_ZeroUnpad ==
  call.op = "ZeroUnPadding" =>
    LET n == Len(call.arg)
        k == Len(ret.out)
    IN  /\ ret.status = "ok"
        /\ k <= n
        /\ ret.out = SubSeq(call.arg, 1, k)
        /\ k > 0 => ret.out[k] # 0
        /\ \A i \in (k + 1)..n : call.arg[i] = 0
        /\ ZeroUnPadding(ret.out) = ret.out
        /\ (\A i \in 1..n : call.arg[i] = 0) => ret.out = <<>>

C16_Witness ==
  /\ call.op = "ZeroUnPadding"
  /\ call.arg = <<7, 0, 7, 200, 0, 0, 0>>
  /\ ret.out = <<7, 0, 7, 200>>

----------------------------------------------------------------------------
(* The ECB block modes, statement by statement: the two precondition       *)
(* checks, then the loop that encrypts or decrypts one block per round and *)
(* advances src and dst by a block.  dst and src are buffers of their own, *)
(* as the BlockMode interface requires.                                    *)

PanicOutputSmaller == "crypto/cipher: output smaller than input"
PanicOutputBlock == "crypto/aes: output not full block"

\* lengths of the src buffers handed to CryptBlocks
BlockSrcLens == {0, 15, 16, 32, 33, 48}

\* lengths of the dst buffers handed to CryptBlocks
BlockDstLens == {0, 16, 31, 32, 48, 64}

BlockSrcs == {MkData(n, 1) : n \in BlockSrcLens}

\* dst as the caller made it, filled with a byte of its own
BlockDsts == {Repeat(170, n) : n \in BlockDstLens}

\* a plausible slip: the length of dst is not checked
CryptBlocksPanic_NoDstCheck(dst, src) ==
  IF Len(src) % BlockSize # 0 THEN PanicFullBlocks
  ELSE ""

\* the two checks that open CryptBlocks: the panic they raise, "" if none
CryptBlocksPanic(dst, src) ==
  IF Len(src) % BlockSize # 0 THEN PanicFullBlocks
  ELSE IF Len(dst) < Len(src) THEN PanicOutputSmaller
  ELSE ""

\* dst with the block at offset at replaced
WriteBlock(dst, at, block) ==
  [i \in 1..Len(dst) |-> IF i > at /\ i <= at + BlockSize THEN block[i - at] ELSE dst[i]]

InitBlocks ==
  /\ eng = NoEngine
  /\ CipherIdle
  /\ KeysIdle
  /\ ProtoIdle
  /\ OthersIdle

\* NewECBEncrypter(block).CryptBlocks(dst, src) /
\* NewECBDecrypter(block).CryptBlocks(dst, src)
CallCryptBlocks(op, key, dst, src) ==
  /\ bm.pc = "idle"
  /\ bm' = [NoBlockCall EXCEPT !.pc = "check", !.op = op, !.key = key,
                               !.src = src, !.dst = dst, !.src0 = src, !.dst0 = dst]
  /\ UNCHANGED <<heap, gor, api>>
  /\ UNCHANGED <<cvars, kvars, pvars>>

\* the precondition checks
CryptBlocksCheck ==
  /\ bm.pc = "check"
  /\ LET p == CryptBlocksPanic(bm.dst, bm.src)
     IN  bm' = IF p # "" THEN [bm EXCEPT !.pc = "panic", !.panic = p]
               ELSE [bm EXCEPT !.pc = "loop"]
  /\ UNCHANGED <<heap, gor, api>>
  /\ UNCHANGED <<cvars, kvars, pvars>>

\* one round of the loop: x.b.Encrypt(dst, src[:x.blockSize]) or x.b.Decrypt,
\* then src = src[x.blockSize:] and dst = dst[x.blockSize:]
CryptBlocksRound ==
  /\ bm.pc = "loop"
  /\ Len(bm.src) > 0
  /\ bm' = IF Len(bm.dst) - bm.at < BlockSize \/ Len(bm.src) < BlockSize
           THEN [bm EXCEPT !.pc = "panic", !.panic = PanicOutputBlock]
           ELSE LET in  == Slice(bm.src, 0, BlockSize)
                    out == IF bm.op = "Encrypt" THEN AESEncryptBlock(bm.key, in)
                           ELSE AESDecryptBlock(bm.key, in)
                IN  [bm EXCEPT !.dst = WriteBlock(bm.dst, bm.at, out),
                               !.src = Slice(bm.src, BlockSize, Len(bm.src)),
                               !.at = bm.at + BlockSize,
                               !.blocks = bm.blocks + 1]
  /\ UNCHANGED <<heap, gor, api>>
  /\ UNCHANGED <<cvars, kvars, pvars>>

\* len(src) is 0: the loop ends and CryptBlocks returns
CryptBlocksReturn ==
  /\ bm.pc = "loop"
  /\ Len(bm.src) = 0
  /\ bm' = [bm EXCEPT !.pc = "done"]
  /\ UNCHANGED <<heap, gor, api>>
  /\ UNCHANGED <<cvars, kvars, pvars>>

NextBlocks ==
  \/ \E op \in {"Encrypt", "Decrypt"}, key \in {k \in Keys : KeySizeOK(k)},
        dst \in BlockDsts, src \in BlockSrcs : CallCryptBlocks(op, key, dst, src)
  \/ CryptBlocksCheck
  \/ CryptBlocksRound
  \/ CryptBlocksReturn

\* a call that has begun runs on: nothing in CryptBlocks waits
SpecBlocks == InitBlocks /\ [][NextBlocks]_vars /\ WF_vars(NextBlocks)

----------------------------------------------------------------------------
(* Properties of the ECB block modes.                                      *)

Violated == Len(bm.src0) % BlockSize # 0 \/ Len(bm.dst0) < Len(bm.src0)

\* block j (from 0) of a buffer
BlockOf(buf, j) == SubSeq(buf, j * BlockSize + 1, (j + 1) * BlockSize)

CryptedBlock(j) ==
  IF bm.op = "Encrypt" THEN AESEncryptBlock(bm.key, BlockOf(bm.src0, j))
  ELSE AESDecryptBlock(bm.key, BlockOf(bm.src0, j))

BlocksSafe ==
  /\ bm.pc = "panic" =>
       /\ Violated
       /\ bm.dst = bm.dst0
       /\ bm.blocks = 0
       /\ bm.panic \in {PanicFullBlocks, PanicOutputSmaller}
  /\ (Violated /\ bm.pc \notin {"idle", "check"}) => bm.pc = "panic"
  /\ bm.pc \in {"loop", "done"} =>
       /\ bm.blocks * BlockSize + Len(bm.src) = Len(bm.src0)
       /\ Len(bm.dst) = Len(bm.dst0)
       /\ \A j \in 0..(bm.blocks - 1) : BlockOf(bm.dst, j) = CryptedBlock(j)
       /\ \A i \in (bm.blocks * BlockSize + 1)..Len(bm.dst) : bm.dst[i] = bm.dst0[i]
  /\ bm.pc = "done" => bm.blocks * BlockSize = Len(bm.src0)

\* C17: CryptBlocks of the ECB encrypter and decrypter aborts when len(src)
\* is no multiple of the block size or dst is shorter than src, before any
\* block is processed and with dst untouched; otherwise it processes exactly
\* len(src)/blockSize blocks in order, each block on its own, and ends.
C17_CryptBlocks ==
  /\ []BlocksSafe
  /\ (bm.pc = "check") ~> (bm.pc \in {"done", "panic"})

C17_Witness ==
  /\ bm.pc = "done"
  /\ bm.op = "Decrypt"
  /\ Len(bm.src0) = 48
  /\ Len(bm.dst0) = 64
  /\ bm.blocks = 3
  /\ BlockOf(bm.dst, 2) = AESDecryptBlock(bm.key, BlockOf(bm.src0, 2))
  /\ \A i \in 49..64 : bm.dst[i] = 170

====
